---- MODULE Spec2Model ----
(***************************************************************************)
(* A model of the order-lifecycle and flash-sale core of gomall-server:    *)
(*   - the Redis admission gate (seckillScript) and the SeckillProduct RPC *)
(*     of the product service;                                             *)
(*   - the inventory operations DecreaseStock / RollbackStock on the       *)
(*     relational store;                                                   *)
(*   - the order service on orders already placed: MarkOrderPaid,          *)
(*     CancelOrder, the expiry consumer, and the admin ShipOrder.          *)
(* Every RPC is a small process: each step of it is one access to a shared *)
(* store (Redis, MySQL, RabbitMQ), which is where handlers interleave.     *)
(***************************************************************************)
EXTENDS Integers, Sequences, FiniteSets, TLC

\* ------------------------------------------------------------------ bounds
NumUsers == 2
NumSkus == 2
MaxQuota == 2
NumSkCalls == 2
MaxStock == 2
MaxCount == 2
NumStCalls == 2
NumOrders == 2
NumOcCalls == 2
MaxDeliveries == 2
MaxTicks == 5
MaxCartOps == 3

Users == 1..NumUsers
\* SKU ids that have a row in the skus table (and may have admission keys).
Skus == 1..NumSkus
SkCalls == 1..NumSkCalls
\* The SKU on flash sale: the one the operator arms and the load test buys.
SkuID == 2

StCalls == 1..NumStCalls
\* A SKU id without a row in the skus table.
NoSku == 0

Orders == 1..NumOrders
OcCalls == 1..NumOcCalls
\* An order_no without a row in the orders table.
NoOrder == 0

Min(a, b) == IF a <= b THEN a ELSE b

VARIABLES
  build,        \* which product-service source is deployed: "main" | "mq"
  kvStock,      \* Redis seckill:stock:<sku>: <<>> when the key is missing, <<n>> otherwise
  kvWinners,    \* Redis seckill:user:<sku>: the set of user ids
  productMq,    \* product service's producer channel s.mqCh: "ok" | "nil" | "closed"
                \* ("none": the source without the field)
  seckillQ,     \* seckill.order.queue: how many messages {user_id, sku_id} were published
  sk,           \* SeckillProduct calls
  epoch,        \* per SKU: what the operator last left in Redis (history)
  rowLocking,   \* whether First() with the gorm:query_option setting locks the row
  dbStock,      \* skus.stock, the committed value, per SKU
  stock0,       \* skus.stock when the service started (history)
  rowLock,      \* per SKU: the DecreaseStock/RollbackStock call whose transaction holds the row, or 0
  st,           \* DecreaseStock / RollbackStock calls
  ordStatus,    \* orders.status, per order
  hist,         \* per order: the values its status has shown, in order (history)
  delayQ,       \* per order: its delay messages not yet handed to the expiry consumer
  oc,           \* MarkOrderPaid / CancelOrder calls and the expiry consumer's deliveries
  acked,        \* per order: the d.Ack calls of the expiry consumer on its delay messages (history)
  seckillBad,   \* seckill.order.queue: messages whose body is not a SeckillMessage
  sc,           \* the seckill consumer goroutine: the delivery it is handling
  skRows,       \* the seckill rows of the orders table
  skDelay,      \* order.delay.queue: the order numbers of seckill orders published to it
  skDelivered,  \* per message: how many times the broker delivered it (history)
  skAcked,      \* per message: the d.Ack calls of the seckill consumer (history)
  skFault,      \* per message: whether GetProduct or the insert failed on it (history)
  orderBuild,   \* which order-service source is deployed: "main" | "latest"
  cart,         \* Redis cart:<user>: the quantity per SKU, 0 when the field is missing
  cart0,        \* the carts when the service started (history)
  ck,           \* CreateOrder calls
  ckRows,       \* per CreateOrder call: the values the status of its order row has shown
  ckTokens,     \* order.delay.queue: the CreateOrder calls whose order number waits in it
  now,          \* the gateway's clock, in ms
  leap,         \* Sentinel's statistic of seckill_api: per bucket its start and its passes
  accepted,     \* the requests the limiter let through in each tick of the last second,
                \* the current tick first (history)
  gwLast,       \* the gateway's last response to POST /product/seckill: its HTTP
                \* status (0 before the first), whether SeckillProduct was invoked,
                \* whether sentinel.Entry let it in and how many e.Exit() it made
  cartBuild,    \* which AddItem of the cart service is deployed: "incr" | "hset"
  cartWant,     \* per user and SKU: the sum of the quantities added since the line
                \* was last removed (history)
  cartOps,      \* how many commands the cart service has served (history)
  boot,         \* main() of the order service: where it is, the attempts made,
                \* s.mqConn and s.mqCh
  ship          \* the admin service's last answer to ShipOrder: the status the
                \* row had (-1: no row), the one it has, and Success

gateVars == <<kvStock, kvWinners, productMq, seckillQ, sk, epoch>>
stockVars == <<rowLocking, dbStock, stock0, rowLock, st>>
orderVars == <<ordStatus, hist, delayQ, oc, acked>>
pipeVars == <<seckillBad, sc, skRows, skDelay, skDelivered, skAcked, skFault>>
shopVars == <<orderBuild, cart, cart0, ck, ckRows, ckTokens>>
gwVars == <<now, leap, accepted, gwLast>>
cartVars == <<cartBuild, cartWant, cartOps>>
vars == <<build, gateVars, stockVars, orderVars, pipeVars, shopVars, gwVars, cartVars, boot, ship>>

\* --------------------------------------------------------- admission gate

\* Results of the Lua script.
WON == 1
SOLD_OUT == 0
DUP == -1
NOT_ARMED == -2

\* Mutant: the sold-out test lets a counter of 0 through.
seckillScript_OffByOne(stock, winners, userId) ==
  IF userId \in winners
    THEN [ret |-> DUP, stock |-> stock, winners |-> winners]
  ELSE IF stock = <<>>
    THEN [ret |-> NOT_ARMED, stock |-> stock, winners |-> winners]
  ELSE IF stock[1] < 0
    THEN [ret |-> SOLD_OUT, stock |-> stock, winners |-> winners]
  ELSE [ret |-> WON, stock |-> <<stock[1] - 1>>, winners |-> winners \cup {userId}]

\* Mutant: a duplicate request gives the slot back.
seckillScript_Undo(stock, winners, userId) ==
  IF userId \in winners
    THEN [ret |-> DUP, stock |-> IF stock = <<>> THEN stock ELSE <<stock[1] + 1>>,
          winners |-> winners \ {userId}]
  ELSE IF stock = <<>>
    THEN [ret |-> NOT_ARMED, stock |-> stock, winners |-> winners]
  ELSE IF stock[1] <= 0
    THEN [ret |-> SOLD_OUT, stock |-> stock, winners |-> winners]
  ELSE [ret |-> WON, stock |-> <<stock[1] - 1>>, winners |-> winners \cup {userId}]

\* Mutant: the script looks at the counter before the membership.
seckillScript_StockFirst(stock, winners, userId) ==
  IF stock = <<>>
    THEN [ret |-> NOT_ARMED, stock |-> stock, winners |-> winners]
  ELSE IF stock[1] <= 0
    THEN [ret |-> SOLD_OUT, stock |-> stock, winners |-> winners]
  ELSE IF userId \in winners
    THEN [ret |-> DUP, stock |-> stock, winners |-> winners]
  ELSE [ret |-> WON, stock |-> <<stock[1] - 1>>, winners |-> winners \cup {userId}]

\* Mutant: the script forgets the DECR.
seckillScript_NoDecr(stock, winners, userId) ==
  IF userId \in winners
    THEN [ret |-> DUP, stock |-> stock, winners |-> winners]
  ELSE IF stock = <<>>
    THEN [ret |-> NOT_ARMED, stock |-> stock, winners |-> winners]
  ELSE IF stock[1] <= 0
    THEN [ret |-> SOLD_OUT, stock |-> stock, winners |-> winners]
  ELSE [ret |-> WON, stock |-> stock, winners |-> winners \cup {userId}]

\* Mutant: the script forgets the SADD.
seckillScript_NoSadd(stock, winners, userId) ==
  IF userId \in winners
    THEN [ret |-> DUP, stock |-> stock, winners |-> winners]
  ELSE IF stock = <<>>
    THEN [ret |-> NOT_ARMED, stock |-> stock, winners |-> winners]
  ELSE IF stock[1] <= 0
    THEN [ret |-> SOLD_OUT, stock |-> stock, winners |-> winners]
  ELSE [ret |-> WON, stock |-> <<stock[1] - 1>>, winners |-> winners]

\* Mutant: the script decrements before it tests the membership.
seckillScript_DecrFirst(stock, winners, userId) ==
  IF stock = <<>>
    THEN [ret |-> NOT_ARMED, stock |-> stock, winners |-> winners]
  ELSE IF stock[1] <= 0
    THEN [ret |-> SOLD_OUT, stock |-> stock, winners |-> winners]
  ELSE IF userId \in winners
    THEN [ret |-> DUP, stock |-> <<stock[1] - 1>>, winners |-> winners]
  ELSE [ret |-> WON, stock |-> <<stock[1] - 1>>, winners |-> winners \cup {userId}]

\* The Lua script, run by Redis as one command: `stock` and `winners` are the
\* values of KEYS[1] and KEYS[2] before it, the result holds them after it.
seckillScript(stock, winners, userId) ==
  IF userId \in winners
    THEN [ret |-> DUP, stock |-> stock, winners |-> winners]
  ELSE IF stock = <<>>
    THEN [ret |-> NOT_ARMED, stock |-> stock, winners |-> winners]
  ELSE IF stock[1] <= 0
    THEN [ret |-> SOLD_OUT, stock |-> stock, winners |-> winners]
  ELSE [ret |-> WON, stock |-> <<stock[1] - 1>>, winners |-> winners \cup {userId}]

IdleSk == [pc |-> "idle", user |-> 0, sku |-> 0, err |-> FALSE, ret |-> 0,
           cur |-> FALSE, code |-> ""]

\* The calls are interchangeable: the next request takes the lowest free id.
NextSkCall(c) == sk[c].pc = "idle" /\ \A d \in SkCalls : d < c => sk[d].pc # "idle"

\* What the operator's last command left for a SKU: `armed` when the counter
\* exists and the winners set is empty, with the counter's value as quota.
EpochOf(stock, winners) ==
  IF stock # <<>> /\ winners = {}
    THEN [armed |-> TRUE, quota |-> stock[1]]
    ELSE [armed |-> FALSE, quota |-> 0]

\* A call answered in a past round: nothing of it is looked at any more.
GoneSk == [IdleSk EXCEPT !.pc = "gone"]

\* A call evaluated before the operator's command belongs to the past round.
Stale(calls, s) ==
  [c \in SkCalls |->
     IF calls[c].sku # s THEN calls[c]
     ELSE IF calls[c].pc = "done" THEN GoneSk
     ELSE [calls[c] EXCEPT !.cur = FALSE]]

\* README, step 1: redis-cli SET seckill:stock:<sku> <q>
ArmSet(s, q) ==
  /\ kvStock' = [kvStock EXCEPT ![s] = <<q>>]
  /\ epoch' = [epoch EXCEPT ![s] = EpochOf(<<q>>, kvWinners[s])]
  /\ sk' = Stale(sk, s)
  /\ UNCHANGED <<build, cartVars, boot, ship, shopVars, gwVars, pipeVars, kvWinners, productMq, seckillQ, stockVars, orderVars>>

\* README, step 1: redis-cli DEL seckill:user:<sku>
ArmDel(s) ==
  /\ kvWinners' = [kvWinners EXCEPT ![s] = {}]
  /\ epoch' = [epoch EXCEPT ![s] = EpochOf(kvStock[s], {})]
  /\ sk' = Stale(sk, s)
  /\ UNCHANGED <<build, cartVars, boot, ship, shopVars, gwVars, pipeVars, kvStock, productMq, seckillQ, stockVars, orderVars>>

\* SeckillProduct, first half: s.rdb.Eval(...) returns the script's result.
SeckillProduct_Eval(c, u, s) ==
  /\ NextSkCall(c)
  /\ LET r == seckillScript(kvStock[s], kvWinners[s], u) IN
       /\ kvStock' = [kvStock EXCEPT ![s] = r.stock]
       /\ kvWinners' = [kvWinners EXCEPT ![s] = r.winners]
       /\ sk' = [sk EXCEPT ![c] = [pc |-> "evaled", user |-> u, sku |-> s,
                                   err |-> FALSE, ret |-> r.ret, cur |-> TRUE,
                                   code |-> ""]]
  /\ UNCHANGED <<build, cartVars, boot, ship, shopVars, gwVars, pipeVars, productMq, seckillQ, epoch, stockVars, orderVars>>

\* SeckillProduct, first half, Eval returns err: the command did not reach
\* Redis (ran = FALSE) or it ran and the reply was lost (ran = TRUE).
SeckillProduct_EvalErr(c, u, s, ran) ==
  /\ NextSkCall(c)
  /\ LET r == seckillScript(kvStock[s], kvWinners[s], u) IN
       /\ kvStock' = [kvStock EXCEPT ![s] = IF ran THEN r.stock ELSE @]
       /\ kvWinners' = [kvWinners EXCEPT ![s] = IF ran THEN r.winners ELSE @]
       /\ sk' = [sk EXCEPT ![c] = [pc |-> "done", user |-> u, sku |-> s,
                                   err |-> TRUE, ret |-> 0, cur |-> TRUE,
                                   code |-> "Internal"]]
  /\ UNCHANGED <<build, cartVars, boot, ship, shopVars, gwVars, pipeVars, productMq, seckillQ, epoch, stockVars, orderVars>>

\* sendSeckillMessage: the queue after s.mqCh.PublishWithContext on an open
\* channel; on a closed channel the publish fails and is only logged.
sendSeckillMessage(q, ch, userId, skuId) ==
  IF ch = "ok" THEN [q EXCEPT ![<<userId, skuId>>] = @ + 1] ELSE q

\* The switch of SeckillProduct on the script's result.
SeckillCode(ret) ==
  CASE ret = 1 -> "OK"
    [] ret = 0 -> "ResourceExhausted"
    [] ret = -1 -> "AlreadyExists"
    [] ret = -2 -> "FailedPrecondition"
    [] OTHER -> "Unknown"

\* Mutant: the message is published whatever the script returned.
SeckillProduct_Switch_Always(c) ==
  /\ sk[c].pc = "evaled"
  /\ LET publishes == build = "mq" IN
       /\ seckillQ' = IF publishes /\ productMq # "nil"
                        THEN sendSeckillMessage(seckillQ, productMq, sk[c].user, sk[c].sku)
                        ELSE seckillQ
       /\ sk' = [sk EXCEPT ![c].pc = "done",
                           ![c].code = IF publishes /\ productMq = "nil"
                                         THEN "Panic"
                                         ELSE SeckillCode(sk[c].ret)]
  /\ UNCHANGED <<build, cartVars, boot, ship, shopVars, gwVars, pipeVars, kvStock, kvWinners, productMq, epoch, stockVars, orderVars>>

\* SeckillProduct, second half: the switch; case 1 publishes first (the "mq"
\* source) and a nil channel (initRabbitMQ failed at start-up, the service
\* serves all the same) makes PublishWithContext panic: no response is sent.
SeckillProduct_Switch(c) ==
  /\ sk[c].pc = "evaled"
  /\ LET publishes == sk[c].ret = 1 /\ build = "mq" IN
       /\ seckillQ' = IF publishes /\ productMq # "nil"
                        THEN sendSeckillMessage(seckillQ, productMq, sk[c].user, sk[c].sku)
                        ELSE seckillQ
       /\ sk' = [sk EXCEPT ![c].pc = "done",
                           ![c].code = IF publishes /\ productMq = "nil"
                                         THEN "Panic"
                                         ELSE SeckillCode(sk[c].ret)]
  /\ UNCHANGED <<build, cartVars, boot, ship, shopVars, gwVars, pipeVars, kvStock, kvWinners, productMq, epoch, stockVars, orderVars>>

\* The broker connection of the product service drops after start-up.
ProducerChannelClosed ==
  /\ build = "mq"
  /\ productMq = "ok"
  /\ productMq' = "closed"
  /\ UNCHANGED <<build, cartVars, boot, ship, shopVars, gwVars, pipeVars, kvStock, kvWinners, seckillQ, sk, epoch, stockVars, orderVars>>

InitGate ==
  /\ kvStock = [s \in Skus |-> <<>>]
  /\ kvWinners = [s \in Skus |-> {}]
  /\ productMq \in (IF build = "mq" THEN {"ok", "nil"} ELSE {"none"})
  /\ seckillQ = [m \in Users \X Skus |-> 0]
  /\ sk = [c \in SkCalls |-> IdleSk]
  /\ epoch = [s \in Skus |-> EpochOf(<<>>, {})]

NextGate ==
  \/ \E q \in 0..MaxQuota : ArmSet(SkuID, q)
  \/ ArmDel(SkuID)
  \/ \E c \in SkCalls, u \in Users, s \in Skus : SeckillProduct_Eval(c, u, s)
  \/ \E c \in SkCalls, u \in Users, s \in Skus, ran \in BOOLEAN :
       SeckillProduct_EvalErr(c, u, s, ran)
  \/ \E c \in SkCalls : SeckillProduct_Switch(c)
  \/ ProducerChannelClosed

\* ------------------------------------------------------- inventory

IdleSt == [pc |-> "idle", kind |-> "", sku |-> 0, count |-> 0, read |-> 0,
           fault |-> FALSE, res |-> ""]

\* The calls are interchangeable: the next request takes the lowest free id.
NextStCall(c) == st[c].pc = "idle" /\ \A d \in StCalls : d < c => st[d].pc # "idle"

\* Mutant: the test of the stock refuses an order for all that is left.
Insufficient_OffByOne(stock, count) == stock <= count

\* DecreaseStock: if sku.Stock < int(req.Count)
Insufficient(stock, count) == stock < count

\* DecreaseStock: sku.Stock -= int(req.Count)
Decreased(stock, count) == stock - count

\* RollbackStock: sku.Stock += int(req.Count)
RolledBack(stock, count) == stock + count

\* A call that has read its row (or found none).
StRead(kind, s, n, read, pc, res) ==
  [IdleSt EXCEPT !.pc = pc, !.kind = kind, !.sku = s, !.count = n, !.read = read, !.res = res]

\* DecreaseStock: tx := s.db.Begin();
\* tx.Set("gorm:query_option", "FOR UPDATE").First(&sku, req.SkuId): no row
\* gives NotFound. With the lock the read waits for the row's holder and takes
\* the row; without it (the setting is one of jinzhu/gorm, gorm.io/gorm has
\* none of that name) the read is a plain snapshot read. Then the test of the
\* stock: too little rolls back with FailedPrecondition.
DecreaseStock_Select(c, s, n) ==
  /\ NextStCall(c)
  /\ IF s \notin Skus
       THEN /\ st' = [st EXCEPT ![c] = StRead("dec", s, n, 0, "done", "NotFound")]
            /\ UNCHANGED rowLock
       ELSE /\ rowLocking => rowLock[s] = 0
            /\ IF Insufficient(dbStock[s], n)
                 THEN /\ st' = [st EXCEPT ![c] =
                                   StRead("dec", s, n, 0, "done", "FailedPrecondition")]
                      /\ UNCHANGED rowLock
                 ELSE /\ st' = [st EXCEPT ![c] = StRead("dec", s, n, dbStock[s], "update", "")]
                      /\ rowLock' = IF rowLocking THEN [rowLock EXCEPT ![s] = c] ELSE rowLock
  /\ UNCHANGED <<build, cartVars, boot, ship, shopVars, gwVars, pipeVars, gateVars, orderVars, rowLocking, dbStock, stock0>>

\* RollbackStock: the same read, and no test.
RollbackStock_Select(c, s, n) ==
  /\ NextStCall(c)
  /\ IF s \notin Skus
       THEN /\ st' = [st EXCEPT ![c] = StRead("rb", s, n, 0, "done", "NotFound")]
            /\ UNCHANGED rowLock
       ELSE /\ rowLocking => rowLock[s] = 0
            /\ st' = [st EXCEPT ![c] = StRead("rb", s, n, dbStock[s], "update", "")]
            /\ rowLock' = IF rowLocking THEN [rowLock EXCEPT ![s] = c] ELSE rowLock
  /\ UNCHANGED <<build, cartVars, boot, ship, shopVars, gwVars, pipeVars, gateVars, orderVars, rowLocking, dbStock, stock0>>

\* tx.Model(&sku).Update("stock", sku.Stock); tx.Commit(); return Success.
\* The statement waits for the row's holder and holds the row until the
\* transaction ends, and the value it wrote becomes the row's value at the
\* commit: no other transaction sees anything between the two, so they are one
\* step. When the statement fails, the "main" source rolls back and answers
\* Internal; the "mq" source does not look at the error, commits and
\* answers success.
StockUpdate(c, ok, new) ==
  /\ st[c].pc = "update"
  /\ rowLock[st[c].sku] \in {0, c}
  /\ rowLock' = [rowLock EXCEPT ![st[c].sku] = 0]
  /\ dbStock' = IF ok THEN [dbStock EXCEPT ![st[c].sku] = new] ELSE dbStock
  /\ st' = [st EXCEPT ![c].pc = "done", ![c].read = 0, ![c].fault = ~ok,
                      ![c].res = IF ok \/ build = "mq" THEN "OK" ELSE "Internal"]
  /\ UNCHANGED <<build, cartVars, boot, ship, shopVars, gwVars, pipeVars, gateVars, orderVars, rowLocking, stock0>>

DecreaseStock_Update(c, ok) ==
  st[c].kind = "dec" /\ StockUpdate(c, ok, Decreased(st[c].read, st[c].count))

RollbackStock_Update(c, ok) ==
  st[c].kind = "rb" /\ StockUpdate(c, ok, RolledBack(st[c].read, st[c].count))

InitStock(stocks) ==
  /\ rowLocking \in BOOLEAN
  /\ dbStock \in {[s \in Skus |-> IF s = SkuID THEN q ELSE MaxStock] : q \in stocks}
  /\ stock0 = dbStock
  /\ rowLock = [s \in Skus |-> 0]
  /\ st = [c \in StCalls |-> IdleSt]

NextStock ==
  \/ \E c \in StCalls, s \in Skus \cup {NoSku}, n \in 1..MaxCount : DecreaseStock_Select(c, s, n)
  \/ \E c \in StCalls, ok \in BOOLEAN : DecreaseStock_Update(c, ok)
  \/ \E c \in StCalls, s \in Skus \cup {NoSku}, n \in 1..MaxCount : RollbackStock_Select(c, s, n)
  \/ \E c \in StCalls, ok \in BOOLEAN : RollbackStock_Update(c, ok)

\* ------------------------------------------------------------- orders

\* orders.status
PENDING == 0
PAID == 1
CANCELLED == 2
SHIPPED == 3

\* The lines of order o (model.Order.Items): one unit of each of the first
\* SKUs, order 1 with one line, order 2 with two, and so on.
Items(o) == [i \in 1..Min(o, NumSkus) |-> [sku |-> i, qty |-> 1]]

IdleOc == [pc |-> "idle", kind |-> "", order |-> 0, read |-> -1, next |-> 0,
           rolled |-> 0, res |-> ""]

\* The calls are interchangeable: the next request takes the lowest free id.
NextOcCall(c) == oc[c].pc = "idle" /\ \A d \in OcCalls : d < c => oc[d].pc # "idle"

\* What a reader of the row sees after a write of v: a new value, or the same.
Committed(h, v) == IF h[Len(h)] = v THEN h ELSE Append(h, v)

\* A call that has loaded its order (or found none).
OcRead(kind, o, read, pc, res) ==
  [IdleOc EXCEPT !.pc = pc, !.kind = kind, !.order = o, !.read = read, !.res = res]

\* Mutant: a second payment of a paid order is refused.
MarkOrderPaid_Loaded_Strict(status) ==
  IF status = PAID THEN [pc |-> "done", res |-> "FailedPrecondition"]
  ELSE [pc |-> "write", res |-> ""]

\* MarkOrderPaid: if o.Status == 1 { return Success: true }, and for any
\* other status the handler goes on to the update.
MarkOrderPaid_Loaded(status) ==
  IF status = PAID THEN [pc |-> "done", res |-> "OK"]
  ELSE [pc |-> "write", res |-> ""]

\* MarkOrderPaid: s.db.Where("order_no = ?", req.OrderNo).First(&o), no row
\* gives NotFound; then the test of o.Status.
MarkOrderPaid_First(c, o) ==
  /\ NextOcCall(c)
  /\ oc' = [oc EXCEPT ![c] =
              IF o \notin Orders THEN OcRead("pay", o, -1, "done", "NotFound")
              ELSE LET l == MarkOrderPaid_Loaded(ordStatus[o])
                   IN OcRead("pay", o, ordStatus[o], l.pc, l.res)]
  /\ UNCHANGED <<build, cartVars, boot, ship, shopVars, gwVars, pipeVars, gateVars, stockVars, ordStatus, hist, delayQ, acked>>

\* MarkOrderPaid: s.db.Model(&o).UpdateColumn("status", 1), an UPDATE by
\* primary key whatever the row's status is by now; an error gives Internal.
MarkOrderPaid_UpdateColumn(c, ok) ==
  /\ oc[c].pc = "write" /\ oc[c].kind = "pay"
  /\ IF ok
       THEN /\ ordStatus' = [ordStatus EXCEPT ![oc[c].order] = PAID]
            /\ hist' = [hist EXCEPT ![oc[c].order] = Committed(@, PAID)]
            /\ oc' = [oc EXCEPT ![c].pc = "done", ![c].res = "OK"]
       ELSE /\ oc' = [oc EXCEPT ![c].pc = "done", ![c].res = "Internal"]
            /\ UNCHANGED <<ordStatus, hist>>
  /\ UNCHANGED <<build, cartVars, boot, ship, shopVars, gwVars, pipeVars, gateVars, stockVars, delayQ, acked>>

\* Mutant: every order is skipped.
cancelOrderLogic_Skip_Always(status) == status \in {PENDING, PAID, CANCELLED, SHIPPED}

\* Mutant: only the terminal statuses are skipped.
cancelOrderLogic_Skip_Terminal(status) == status \in {CANCELLED, SHIPPED}

\* Mutant: only a cancelled order is skipped, a paid one is cancelled.
cancelOrderLogic_Skip_OnlyCancelled(status) == status = CANCELLED

\* cancelOrderLogic: if o.Status != 0 { return Success: true }
cancelOrderLogic_Skip(status) == status # PENDING

\* cancelOrderLogic: Preload("Items").Where("order_no = ?", orderNo).First(&o),
\* no row gives NotFound; then the test of o.Status.
cancelOrderLogic_First(c, kind, o) ==
  /\ NextOcCall(c)
  /\ oc' = [oc EXCEPT ![c] =
              IF o \notin Orders THEN OcRead(kind, o, -1, "done", "NotFound")
              ELSE IF cancelOrderLogic_Skip(ordStatus[o])
                THEN OcRead(kind, o, ordStatus[o], "done", "OK")
                ELSE OcRead(kind, o, ordStatus[o], "write", "")]
  /\ UNCHANGED <<build, cartVars, boot, ship, shopVars, gwVars, pipeVars, gateVars, stockVars, ordStatus, hist>>

\* CancelOrder (RPC): return s.cancelOrderLogic(ctx, req.OrderNo)
CancelOrder(c, o) ==
  /\ cancelOrderLogic_First(c, "cancel", o)
  /\ UNCHANGED <<delayQ, acked>>

\* startConsumer, the loop over msgsClose: d.Ack(false) in the branch of
\* err != nil and in the other one.
msgsClose_Ack(res) == 1

\* The acknowledgements after a step that left the call as given: the
\* consumer acknowledges when cancelOrderLogic has returned.
Acked(a, call) ==
  IF call.kind = "expire" /\ call.pc = "done"
    THEN [a EXCEPT ![call.order] = @ + msgsClose_Ack(call.res)]
    ELSE a

\* startConsumer, the loop over msgsClose: one goroutine takes the messages
\* of order.close.queue one at a time, runs cancelOrderLogic on the order_no
\* in the body and acknowledges the message whatever the outcome.
startConsumer_Close(c, o) ==
  /\ o \in Orders /\ delayQ[o] > 0
  /\ \A d \in OcCalls : oc[d].kind = "expire" => oc[d].pc = "done"
  /\ delayQ' = [delayQ EXCEPT ![o] = @ - 1]
  /\ cancelOrderLogic_First(c, "expire", o)
  /\ acked' = Acked(acked, oc'[c])

\* cancelOrderLogic: s.db.Model(&o).UpdateColumn("status", 2), an UPDATE by
\* primary key; an error gives Internal; then the loop over o.Items starts.
cancelOrderLogic_UpdateColumn(c, ok) ==
  /\ oc[c].pc = "write" /\ oc[c].kind \in {"cancel", "expire"}
  /\ IF ok
       THEN /\ ordStatus' = [ordStatus EXCEPT ![oc[c].order] = CANCELLED]
            /\ hist' = [hist EXCEPT ![oc[c].order] = Committed(@, CANCELLED)]
            /\ oc' = [oc EXCEPT ![c].pc = "rollback", ![c].next = 1]
       ELSE /\ oc' = [oc EXCEPT ![c].pc = "done", ![c].res = "Internal"]
            /\ UNCHANGED <<ordStatus, hist>>
  /\ acked' = Acked(acked, oc'[c])
  /\ UNCHANGED <<build, cartVars, boot, ship, shopVars, gwVars, pipeVars, gateVars, stockVars, delayQ>>

\* Mutant: an error of RollbackStock ends the cancel with Internal.
AfterRollback_Surfaced(call, ok, last) ==
  IF ~ok THEN [call EXCEPT !.rolled = @ + 1, !.next = 0, !.pc = "done", !.res = "Internal"]
  ELSE [call EXCEPT !.rolled = @ + 1,
                    !.next = IF last THEN 0 ELSE @ + 1,
                    !.pc = IF last THEN "done" ELSE "rollback",
                    !.res = IF last THEN "OK" ELSE ""]

\* cancelOrderLogic, the loop over o.Items after a RollbackStock call: its
\* error is logged and the loop goes on; after the last line, Success: true.
AfterRollback(call, ok, last) ==
  [call EXCEPT !.rolled = @ + 1,
               !.next = IF last THEN 0 ELSE @ + 1,
               !.pc = IF last THEN "done" ELSE "rollback",
               !.res = IF last THEN "OK" ELSE ""]

\* cancelOrderLogic, one turn of the loop: s.productClient.RollbackStock for
\* the line, the product service's handler run as one step; its error is
\* logged and the loop goes on. After the last line: return Success: true.
cancelOrderLogic_RollbackStock(c, ok) ==
  /\ oc[c].pc = "rollback"
  /\ LET o == oc[c].order
         item == Items(o)[oc[c].next]
         last == oc[c].next = Len(Items(o))
     IN /\ dbStock' = IF ok THEN [dbStock EXCEPT ![item.sku] = RolledBack(@, item.qty)]
                      ELSE dbStock
        /\ oc' = [oc EXCEPT ![c] = AfterRollback(@, ok, last)]
  /\ acked' = Acked(acked, oc'[c])
  /\ UNCHANGED <<build, cartVars, boot, ship, shopVars, gwVars, pipeVars, gateVars, rowLocking, stock0, rowLock, st, ordStatus, hist, delayQ>>

\* ShipOrder (admin): Success: err == nil, err being that of the UPDATE,
\* which is nil when the statement matched no row.
ShipOrder_Success(ok, matched) == ok

\* No ShipOrder has been answered.
NoShip == [called |-> FALSE, before |-> -1, after |-> -1, success |-> FALSE]

\* ShipOrder (admin): UPDATE orders SET status = 3 WHERE order_no = ? AND
\* status = 1, one statement: it changes the row when the order is PAID and
\* matches nothing otherwise; `ok`: the database ran the statement.
ShipOrder(o, ok) ==
  /\ LET before == IF o \in Orders THEN ordStatus[o] ELSE -1
         matched == ok /\ before = PAID
     IN /\ ordStatus' = IF matched THEN [ordStatus EXCEPT ![o] = SHIPPED] ELSE ordStatus
        /\ hist' = IF matched THEN [hist EXCEPT ![o] = Committed(@, SHIPPED)] ELSE hist
        /\ ship' = [called |-> TRUE, before |-> before,
                    after |-> IF matched THEN SHIPPED ELSE before,
                    success |-> ShipOrder_Success(ok, matched)]
  /\ UNCHANGED <<build, cartVars, boot, shopVars, gwVars, pipeVars, gateVars, stockVars, delayQ, oc, acked>>

InitShip == ship = NoShip

\* The history of an order that reached status v by the listed transitions.
PathTo(v) == IF v = PENDING THEN <<PENDING>> ELSE <<PENDING, v>>

\* Orders as CreateOrder / createSeckillOrder insert them (Status: 0, one
\* delay message each), some of them since paid or cancelled.
InitOrders(statuses) ==
  /\ ordStatus \in [Orders -> statuses]
  /\ hist = [o \in Orders |-> PathTo(ordStatus[o])]
  /\ delayQ = [o \in Orders |-> 1]
  /\ oc = [c \in OcCalls |-> IdleOc]
  /\ acked = [o \in Orders |-> 0]

\* The admin ships the orders that are paid.
NextOrder ==
  \/ \E c \in OcCalls, o \in Orders \cup {NoOrder} : MarkOrderPaid_First(c, o)
  \/ \E c \in OcCalls, ok \in BOOLEAN : MarkOrderPaid_UpdateColumn(c, ok)
  \/ \E c \in OcCalls, o \in Orders \cup {NoOrder} : CancelOrder(c, o)
  \/ \E c \in OcCalls, o \in Orders : startConsumer_Close(c, o)
  \/ \E c \in OcCalls, ok \in BOOLEAN : cancelOrderLogic_UpdateColumn(c, ok)
  \/ \E c \in OcCalls, ok \in BOOLEAN : cancelOrderLogic_RollbackStock(c, ok)
  \/ \E o \in Orders : ordStatus[o] = PAID /\ ShipOrder(o, TRUE)

\* --------------------------------------------------- seckill consumer

\* The bodies sendSeckillMessage publishes, and one that is not JSON.
Msgs == Users \X Skus
Malformed == <<0, 0>>

\* Mutant: the order number leaves the user out.
OrderNo_NoUser(userId, skuId) == <<"SK", 0, skuId>>

\* createSeckillOrder: orderNo := fmt.Sprintf("SK-%d-%d", userId, skuId)
OrderNo(userId, skuId) == <<"SK", userId, skuId>>

IdleSc == [pc |-> "idle", key |-> Malformed, err |-> FALSE]

\* Whether the orders table has a row of this number (uni_order_no).
RowOf(no) == \E r \in skRows : r.no = no

\* startConsumer, the loop over msgsSeckill: the goroutine takes the next
\* message; json.Unmarshal of a SeckillMessage succeeds.
msgsSeckill_Deliver(m) ==
  /\ sc.pc = "idle" /\ seckillQ[m] > 0
  /\ seckillQ' = [seckillQ EXCEPT ![m] = @ - 1]
  /\ skDelivered' = [skDelivered EXCEPT ![m] = @ + 1]
  /\ sc' = [IdleSc EXCEPT !.pc = "count", !.key = m]
  /\ UNCHANGED <<build, cartVars, boot, ship, shopVars, gwVars, kvStock, kvWinners, productMq, sk, epoch, stockVars, orderVars,
                 seckillBad, skRows, skDelay, skAcked, skFault>>

\* The same with a body json.Unmarshal rejects: logged, d.Ack(false), continue.
msgsSeckill_DeliverBad ==
  /\ sc.pc = "idle" /\ seckillBad > 0
  /\ seckillBad' = seckillBad - 1
  /\ skDelivered' = [skDelivered EXCEPT ![Malformed] = @ + 1]
  /\ sc' = [IdleSc EXCEPT !.pc = "ack", !.err = TRUE]
  /\ UNCHANGED <<build, cartVars, boot, ship, shopVars, gwVars, gateVars, stockVars, orderVars, skRows, skDelay, skAcked, skFault>>

\* createSeckillOrder up to the insert: Count(&exist) of the rows of the
\* order number (its error is not looked at and leaves exist at 0), exist > 0
\* returns nil; ListAddress only chooses the receiver snapshot; an error of
\* GetProduct is returned.
createSeckillOrder_Count(countOk, productOk) ==
  /\ sc.pc = "count"
  /\ LET exist == IF countOk /\ RowOf(OrderNo(sc.key[1], sc.key[2])) THEN 1 ELSE 0
     IN IF exist > 0
          THEN sc' = [sc EXCEPT !.pc = "ack"] /\ UNCHANGED skFault
          ELSE IF ~productOk
            THEN /\ sc' = [sc EXCEPT !.pc = "ack", !.err = TRUE]
                 /\ skFault' = [skFault EXCEPT ![sc.key] = TRUE]
            ELSE sc' = [sc EXCEPT !.pc = "create"] /\ UNCHANGED skFault
  /\ UNCHANGED <<build, cartVars, boot, ship, shopVars, gwVars, gateVars, stockVars, orderVars, seckillBad, skRows, skDelay,
                 skDelivered, skAcked>>

\* Mutant: the insert of a flash order takes its unit from skus.stock, as
\* CreateOrder does for the lines of a cart.
createSeckillOrder_Create_Decrease(ok, published) ==
  /\ sc.pc = "create"
  /\ LET no == OrderNo(sc.key[1], sc.key[2])
     IN IF RowOf(no)
          THEN /\ sc' = [sc EXCEPT !.pc = "ack", !.err = TRUE]
               /\ UNCHANGED <<skRows, skDelay, skFault, dbStock>>
          ELSE IF ~ok
            THEN /\ sc' = [sc EXCEPT !.pc = "ack", !.err = TRUE]
                 /\ skFault' = [skFault EXCEPT ![sc.key] = TRUE]
                 /\ UNCHANGED <<skRows, skDelay, dbStock>>
            ELSE /\ skRows' = skRows \cup {[no |-> no, user |-> sc.key[1], sku |-> sc.key[2]]}
                 /\ skDelay' = IF published THEN skDelay \cup {no} ELSE skDelay
                 /\ sc' = [sc EXCEPT !.pc = "ack"]
                 /\ dbStock' = [dbStock EXCEPT ![sc.key[2]] = Decreased(@, 1)]
                 /\ UNCHANGED skFault
  /\ UNCHANGED <<build, cartVars, boot, ship, shopVars, gwVars, gateVars, orderVars, seckillBad, skDelivered, skAcked,
                 rowLocking, stock0, rowLock, st>>

\* createSeckillOrder: s.db.Create(&newOrder), which the unique key on
\* order_no refuses for a number that has a row, and whose error is
\* returned; then _ = s.publishDelayMessage(orderNo), and return nil.
createSeckillOrder_Create(ok, published) ==
  /\ sc.pc = "create"
  /\ LET no == OrderNo(sc.key[1], sc.key[2])
     IN IF RowOf(no)
          THEN /\ sc' = [sc EXCEPT !.pc = "ack", !.err = TRUE]
               /\ UNCHANGED <<skRows, skDelay, skFault>>
          ELSE IF ~ok
            THEN /\ sc' = [sc EXCEPT !.pc = "ack", !.err = TRUE]
                 /\ skFault' = [skFault EXCEPT ![sc.key] = TRUE]
                 /\ UNCHANGED <<skRows, skDelay>>
            ELSE /\ skRows' = skRows \cup {[no |-> no, user |-> sc.key[1], sku |-> sc.key[2]]}
                 /\ skDelay' = IF published THEN skDelay \cup {no} ELSE skDelay
                 /\ sc' = [sc EXCEPT !.pc = "ack"]
                 /\ UNCHANGED skFault
  /\ UNCHANGED <<build, cartVars, boot, ship, shopVars, gwVars, gateVars, stockVars, orderVars, seckillBad, skDelivered, skAcked>>

\* Mutant: a message whose order could not be created is left unacknowledged.
msgsSeckill_Ack_OnSuccess(err) == IF err THEN 0 ELSE 1

\* startConsumer, the loop over msgsSeckill: d.Ack(false) after the parse
\* error, and after createSeckillOrder whatever it returned.
msgsSeckill_Ack(err) == 1

msgsSeckill_Acknowledge ==
  /\ sc.pc = "ack"
  /\ skAcked' = [skAcked EXCEPT ![sc.key] = @ + msgsSeckill_Ack(sc.err)]
  /\ sc' = IdleSc
  /\ UNCHANGED <<build, cartVars, boot, ship, shopVars, gwVars, gateVars, stockVars, orderVars, seckillBad, skRows, skDelay,
                 skDelivered, skFault>>

\* The broker loses the consumer's channel while a message is unacknowledged
\* (Consume with autoAck false) and queues the message again.
BrokerRedeliver ==
  /\ sc.pc # "idle" /\ sc.key # Malformed
  /\ skDelivered[sc.key] + seckillQ[sc.key] < MaxDeliveries
  /\ seckillQ' = [seckillQ EXCEPT ![sc.key] = @ + 1]
  /\ UNCHANGED <<build, cartVars, boot, ship, shopVars, gwVars, kvStock, kvWinners, productMq, sk, epoch, stockVars, orderVars, pipeVars>>

\* No message of the seckill queue has been handled.
InitPipe(bad) ==
  /\ seckillBad \in bad
  /\ sc = IdleSc
  /\ skRows = {}
  /\ skDelay = {}
  /\ skDelivered = [m \in Msgs \cup {Malformed} |-> 0]
  /\ skAcked = [m \in Msgs \cup {Malformed} |-> 0]
  /\ skFault = [m \in Msgs |-> FALSE]

\* The gate after a flash sale of SkuID: the users of W won, and
\* SeckillProduct published one message for each of them.
\* The seckill consumer takes no part: its queue stays empty and nothing is
\* recorded of it.
InitPipeOff ==
  /\ seckillBad = 0
  /\ sc = IdleSc
  /\ skRows = {}
  /\ skDelay = {}
  /\ skDelivered = <<>>
  /\ skAcked = <<>>
  /\ skFault = <<>>

InitGateSold(winnerSets) ==
  \E W \in winnerSets :
    /\ Cardinality(W) <= MaxQuota
    /\ kvStock = [s \in Skus |-> IF s = SkuID THEN <<MaxQuota - Cardinality(W)>> ELSE <<>>]
    /\ kvWinners = [s \in Skus |-> IF s = SkuID THEN W ELSE {}]
    /\ productMq = "ok"
    /\ seckillQ = [m \in Msgs |-> IF m[1] \in W /\ m[2] = SkuID THEN 1 ELSE 0]
    /\ sk = [c \in SkCalls |-> IdleSk]
    /\ epoch = [s \in Skus |-> IF s = SkuID THEN [armed |-> TRUE, quota |-> MaxQuota]
                               ELSE EpochOf(<<>>, {})]

\* The goroutine of startConsumer on seckill.order.queue, and the broker.
NextSeckill ==
  \/ \E m \in Msgs : msgsSeckill_Deliver(m)
  \/ msgsSeckill_DeliverBad
  \/ \E countOk, productOk \in BOOLEAN : createSeckillOrder_Count(countOk, productOk)
  \/ \E ok, published \in BOOLEAN : createSeckillOrder_Create(ok, published)
  \/ msgsSeckill_Acknowledge
  \/ BrokerRedeliver

\* The two goroutines of startConsumer.
NextConsumers ==
  \/ NextSeckill
  \/ \E c \in OcCalls, o \in Orders : startConsumer_Close(c, o)
  \/ \E c \in OcCalls, ok \in BOOLEAN : cancelOrderLogic_UpdateColumn(c, ok)
  \/ \E c \in OcCalls, ok \in BOOLEAN : cancelOrderLogic_RollbackStock(c, ok)

\* ------------------------------------------------------------ checkout

\* One CreateOrder call per order that can be placed.
CkCalls == 1..NumOrders

\* addresses.id; address a was created by user a (addresses.user_id).
Addresses == Users
AddrOwner(a) == a

\* GetAddress: the AddressInfo it answers carries no user id, so the caller
\* reads the zero value of the field.
GetAddress_UserId(a) == 0

\* GetProduct: the price of a SKU, in whole units.
Price(s) == 2 * s + 1

\* Mutant: the amount of a line forgets the quantity.
LineAmount_NoQuantity(price, quantity) == price

\* CreateOrder: totalAmount += prodResp.Price * float32(item.Quantity)
LineAmount(price, quantity) == price * quantity

\* The SKUs a cart holds.
InCart(u) == {s \in Skus : cart[u][s] > 0}

\* Mutant: the order is made of every line of the cart.
Selected_WholeCart(u, skuIds) == InCart(u)

\* CreateOrder: the cart lines the order is made of. The latest source keeps
\* the lines whose SKU the request names, the earlier one takes them all.
Selected(u, skuIds) ==
  IF orderBuild = "latest" THEN InCart(u) \cap skuIds ELSE InCart(u)

\* GetCart answers the fields of the hash in the order of a map iteration:
\* every order of the selected lines can come out.
SelectedItems(u, skuIds) ==
  LET S == Selected(u, skuIds)
      n == Cardinality(S)
  IN {[i \in 1..n |-> [sku |-> f[i], qty |-> cart[u][f[i]]]] :
        f \in {g \in [1..n -> S] : \A i, j \in 1..n : g[i] = g[j] => i = j}}

\* CreateOrder, up to tx.Begin: the code it rejects the request with, "" when
\* it goes on.
CreateOrder_Rejection(userId, addressId, skuIds) ==
  IF addressId <= 0 THEN "InvalidArgument"
  ELSE IF orderBuild = "latest" /\ skuIds = {} THEN "InvalidArgument"
  ELSE IF addressId \notin Addresses THEN "NotFound"
  ELSE IF orderBuild = "main" /\ GetAddress_UserId(addressId) # userId
    THEN "PermissionDenied"
  ELSE IF InCart(userId) = {} THEN "Unknown"
  ELSE IF Selected(userId, skuIds) = {} THEN "InvalidArgument"
  ELSE ""

\* CreateOrder: the code returned when DecreaseStock answers an error.
CreateOrder_StockCode == IF orderBuild = "latest" THEN "ResourceExhausted" ELSE "Unknown"

IdleCk == [pc |-> "idle", user |-> 0, addr |-> 0, items |-> <<>>,
           n |-> 0, total |-> 0, code |-> "", short |-> FALSE,
           published |-> 0, fault |-> FALSE]

NextCkCall(c) == ck[c].pc = "idle" /\ \A d \in CkCalls : d < c => ck[d].pc # "idle"

\* CreateOrder, from the request to tx.Begin.
CreateOrder_Begin(c, userId, addressId, skuIds) ==
  /\ NextCkCall(c)
  /\ LET code == CreateOrder_Rejection(userId, addressId, skuIds)
     IN IF code # ""
          THEN ck' = [ck EXCEPT ![c] = [IdleCk EXCEPT !.pc = "done", !.user = userId,
                                          !.addr = addressId, !.code = code]]
          ELSE \E items \in SelectedItems(userId, skuIds) :
                 ck' = [ck EXCEPT ![c] = [IdleCk EXCEPT !.pc = "loop", !.user = userId,
                                            !.addr = addressId, !.items = items]]
  /\ UNCHANGED <<build, cartVars, boot, ship, gateVars, stockVars, orderVars, pipeVars, gwVars,
                 orderBuild, cart, cart0, ckRows, ckTokens>>

\* CreateOrder, one round of the loop over the selected lines: GetProduct,
\* then DecreaseStock (the product service's transaction, as one step).
CreateOrder_Line(c, productOk, stockOk) ==
  /\ ck[c].pc = "loop"
  /\ LET item == ck[c].items[ck[c].n + 1]
         short == Insufficient(dbStock[item.sku], item.qty)
     IN IF ~productOk
          THEN /\ ck' = [ck EXCEPT ![c].pc = "done", ![c].code = "NotFound"]
               /\ UNCHANGED dbStock
        ELSE IF short \/ ~stockOk
          THEN /\ ck' = [ck EXCEPT ![c].pc = "done", ![c].code = CreateOrder_StockCode,
                                   ![c].short = short]
               /\ UNCHANGED dbStock
        ELSE /\ dbStock' = [dbStock EXCEPT ![item.sku] = Decreased(@, item.qty)]
             /\ ck' = [ck EXCEPT ![c].n = @ + 1,
                                 ![c].total = @ + LineAmount(Price(item.sku), item.qty),
                                 ![c].pc = IF ck[c].n + 1 = Len(ck[c].items)
                                             THEN "insert" ELSE "loop"]
  /\ UNCHANGED <<build, cartVars, boot, ship, gateVars, orderVars, pipeVars, gwVars,
                 rowLocking, stock0, rowLock, st,
                 orderBuild, cart, cart0, ckRows, ckTokens>>

\* The cart lines CreateOrder asks the cart service to remove: DeleteItem
\* for each selected line, or EmptyCart in the earlier source.
CreateOrder_Removed(c) ==
  IF orderBuild = "latest" THEN {ck[c].items[i].sku : i \in 1..Len(ck[c].items)}
  ELSE Skus

\* Mutant: an error of the cart service or of the broker after the commit
\* is answered Internal.
CreateOrder_Create_Strict(c, ok, committed, removed, published) ==
  /\ ck[c].pc = "insert"
  /\ IF ok
       THEN /\ ckRows' = [ckRows EXCEPT ![c] = IF committed THEN <<PENDING>> ELSE <<>>]
            /\ cart' = [cart EXCEPT ![ck[c].user] =
                 [s \in Skus |-> IF removed /\ s \in CreateOrder_Removed(c) THEN 0 ELSE @[s]]]
            /\ ckTokens' = IF published THEN ckTokens \cup {c} ELSE ckTokens
            /\ ck' = [ck EXCEPT ![c].pc = "done",
                                ![c].code = IF removed /\ published THEN "OK" ELSE "Internal",
                                ![c].published = IF published THEN 1 ELSE 0,
                                ![c].fault = ~committed \/ ~removed \/ ~published]
       ELSE /\ ck' = [ck EXCEPT ![c].pc = "done", ![c].code = "Internal"]
            /\ UNCHANGED <<ckRows, cart, ckTokens>>
  /\ UNCHANGED <<build, cartVars, boot, ship, gateVars, stockVars, orderVars, pipeVars, gwVars,
                 orderBuild, cart0>>

\* CreateOrder from tx.Create on: the insert fails (tx.Rollback, Internal),
\* or tx.Commit() is called, the cart service is asked to remove the lines,
\* publishDelayMessage is called and the order is answered; the errors of
\* the last three are dropped. `committed`: the commit went through, the
\* row is there; `removed`: the cart service answered the calls;
\* `published`: the broker took the message.
CreateOrder_Create(c, ok, committed, removed, published) ==
  /\ ck[c].pc = "insert"
  /\ IF ok
       THEN /\ ckRows' = [ckRows EXCEPT ![c] = IF committed THEN <<PENDING>> ELSE <<>>]
            /\ cart' = [cart EXCEPT ![ck[c].user] =
                 [s \in Skus |-> IF removed /\ s \in CreateOrder_Removed(c) THEN 0 ELSE @[s]]]
            /\ ckTokens' = IF published THEN ckTokens \cup {c} ELSE ckTokens
            /\ ck' = [ck EXCEPT ![c].pc = "done", ![c].code = "OK",
                                ![c].published = IF published THEN 1 ELSE 0,
                                ![c].fault = ~committed \/ ~removed \/ ~published]
       ELSE /\ ck' = [ck EXCEPT ![c].pc = "done", ![c].code = "Internal"]
            /\ UNCHANGED <<ckRows, cart, ckTokens>>
  /\ UNCHANGED <<build, cartVars, boot, ship, gateVars, stockVars, orderVars, pipeVars, gwVars,
                 orderBuild, cart0>>

\* The delay message of an order reaches the expiry consumer, nothing
\* failing: cancelOrderLogic finds no row (NotFound, the message is
\* acknowledged), or cancels the order if it is PENDING and calls
\* RollbackStock for each of its lines.
startConsumer_Expire(c) ==
  /\ c \in ckTokens
  /\ ckTokens' = ckTokens \ {c}
  /\ IF ckRows[c] # <<>> /\ ~cancelOrderLogic_Skip(ckRows[c][Len(ckRows[c])])
       THEN /\ ckRows' = [ckRows EXCEPT ![c] = Append(@, CANCELLED)]
            /\ dbStock' = [s \in Skus |->
                 LET its == ck[c].items
                     mine == {i \in 1..Len(its) : its[i].sku = s}
                 IN IF mine = {} THEN dbStock[s]
                    ELSE RolledBack(dbStock[s], its[CHOOSE i \in mine : TRUE].qty)]
       ELSE UNCHANGED <<ckRows, dbStock>>
  /\ UNCHANGED <<build, cartVars, boot, ship, gateVars, orderVars, pipeVars, gwVars,
                 rowLocking, stock0, rowLock, st,
                 orderBuild, cart, cart0, ck>>

\* Every user's cart holds the first `lines` SKUs, `quantity` of each.
CartsOf(lines, quantity) ==
  [u \in Users |-> [s \in Skus |-> IF s <= lines THEN quantity ELSE 0]]

InitShop(builds, carts) ==
  /\ orderBuild \in builds
  /\ cart \in carts
  /\ cart0 = cart
  /\ ck = [c \in CkCalls |-> IdleCk]
  /\ ckRows = [c \in CkCalls |-> <<>>]
  /\ ckTokens = {}

\* No checkout takes part: Redis holds no cart, no CreateOrder is called.
InitShopOff ==
  /\ orderBuild = "latest"
  /\ cart = <<>>
  /\ cart0 = <<>>
  /\ ck = <<>>
  /\ ckRows = <<>>
  /\ ckTokens = {}

NextCheckout ==
  \/ \E c \in CkCalls, u \in Users, S \in SUBSET Skus :
       \E a \in {0, u, (u % NumUsers) + 1, NumUsers + 1} : CreateOrder_Begin(c, u, a, S)
  \/ \E c \in CkCalls, productOk \in BOOLEAN, stockOk \in BOOLEAN :
       CreateOrder_Line(c, productOk, stockOk)
  \/ \E c \in CkCalls, ok, committed, removed, published \in BOOLEAN :
       CreateOrder_Create(c, ok, committed, removed, published)
  \/ \E c \in CkCalls : startConsumer_Expire(c)

\* ------------------------------------------------------------- gateway

\* initSentinel: the flow rule of seckill_api.
Threshold == 5
StatIntervalInMs == 1000

\* sentinel.InitDefault(): the statistic the rule reads is the default one
\* of the resource, a leap array of SampleCount buckets over the interval.
SampleCount == 2
BucketLengthInMs == StatIntervalInMs \div SampleCount

\* The clock advances by a quarter of the statistic interval.
TickInMs == StatIntervalInMs \div 4

\* The leap array: the start of the bucket that time t falls in, and its slot.
BucketStart(t) == t - (t % BucketLengthInMs)
BucketIdx(t) == (t \div BucketLengthInMs) % SampleCount

\* The passes the rule sees at time t: those of the buckets that start
\* within the interval that ends with the current bucket.
PassSum(buckets, t) ==
  LET valid == {i \in 0..(SampleCount - 1) :
                  /\ buckets[i].start <= BucketStart(t)
                  /\ buckets[i].start > BucketStart(t) - StatIntervalInMs}
      RECURSIVE Sum(_)
      Sum(is) == IF is = {} THEN 0
                 ELSE LET i == CHOOSE x \in is : TRUE IN buckets[i].pass + Sum(is \ {i})
  IN Sum(valid)

\* flow.Reject with flow.Direct: the entry is blocked when one more pass
\* would exceed the threshold.
Blocked(sum) == sum + 1 > Threshold

\* The statistic after a pass at time t: the current bucket, reset when it
\* still holds an older interval, counts one more.
AddPass(buckets, t) ==
  LET i == BucketIdx(t)
      old == IF buckets[i].start = BucketStart(t) THEN buckets[i].pass ELSE 0
  IN [buckets EXCEPT ![i] = [start |-> BucketStart(t), pass |-> old + 1]]

\* Time passes.
Tick ==
  /\ now < MaxTicks * TickInMs
  /\ now' = now + TickInMs
  /\ accepted' = <<0>> \o SubSeq(accepted, 1, Min(Len(accepted), (StatIntervalInMs \div TickInMs) - 1))
  /\ UNCHANGED <<build, cartVars, boot, ship, gateVars, stockVars, orderVars, pipeVars, shopVars, leap, gwLast>>

\* Mutant: e.Exit() is called at the end of the handler, not deferred: the
\* paths that return early leave the entry open.
Exits_NoDefer(status, entered) == IF entered /\ status = 200 THEN 1 ELSE 0

\* The e.Exit() calls of a request answered with `status`: none when
\* sentinel.Entry blocked it (the handler returns before the defer), and the
\* deferred one on every return after it.
Exits(status, entered) == IF entered THEN 1 ELSE 0

\* What the handler leaves of a request: `entered`: sentinel.Entry passed.
Answer(status, invoked, entered) ==
  [status |-> status, invoked |-> invoked, entered |-> entered,
   exits |-> Exits(status, entered)]

\* POST /product/seckill by an authenticated user, sku_id 0 standing for a
\* body that does not bind. A blocked entry is answered 429 at once; a body
\* that does not bind 400; otherwise SeckillProduct is invoked (the product
\* service of src/apps/product/main.go: the script, then the switch on its
\* result) and its error is answered 500. `eval`: "ok", or how Eval failed
\* ("unsent": the script did not run, "lost": it ran and the reply was lost).
SeckillHandler(userId, skuId, eval) ==
  /\ build = "main"
  /\ IF Blocked(PassSum(leap, now))
       THEN /\ gwLast' = Answer(429, FALSE, FALSE)
            /\ UNCHANGED <<leap, accepted, kvStock, kvWinners>>
       ELSE /\ leap' = AddPass(leap, now)
            /\ accepted' = [accepted EXCEPT ![1] = @ + 1]
            /\ IF skuId \notin Skus
                 THEN /\ gwLast' = Answer(400, FALSE, TRUE)
                      /\ UNCHANGED <<kvStock, kvWinners>>
                 ELSE LET r == seckillScript(kvStock[skuId], kvWinners[skuId], userId)
                          ran == eval # "unsent"
                      IN /\ kvStock' = [kvStock EXCEPT ![skuId] = IF ran THEN r.stock ELSE @]
                         /\ kvWinners' = [kvWinners EXCEPT ![skuId] = IF ran THEN r.winners ELSE @]
                         /\ gwLast' = Answer(IF eval = "ok" /\ SeckillCode(r.ret) = "OK"
                                               THEN 200 ELSE 500, TRUE, TRUE)
  /\ UNCHANGED <<build, cartVars, boot, ship, stockVars, orderVars, pipeVars, shopVars,
                 productMq, seckillQ, sk, epoch, now>>

\* README, step 1, done for SkuID: the counter holds MaxQuota, nobody won.
InitGateArmed ==
  /\ kvStock = [s \in Skus |-> IF s = SkuID THEN <<MaxQuota>> ELSE <<>>]
  /\ kvWinners = [s \in Skus |-> {}]
  /\ productMq \in (IF build = "mq" THEN {"ok", "nil"} ELSE {"none"})
  /\ seckillQ = [m \in Users \X Skus |-> 0]
  /\ sk = [c \in SkCalls |-> IdleSk]
  /\ epoch = [s \in Skus |-> EpochOf(kvStock[s], {})]

InitGateway ==
  /\ now = 0
  /\ leap = [i \in 0..(SampleCount - 1) |-> [start |-> 0, pass |-> 0]]
  /\ accepted = <<0>>
  /\ gwLast = [status |-> 0, invoked |-> FALSE, entered |-> FALSE, exits |-> 0]

\* The gateway takes no part: no request reaches the limiter.
InitGatewayOff ==
  /\ now = 0
  /\ leap = <<>>
  /\ accepted = <<>>
  /\ gwLast = [status |-> 0, invoked |-> FALSE, entered |-> FALSE, exits |-> 0]

NextGateway ==
  \/ Tick
  \/ \E u \in Users, s \in {0} \cup Skus, eval \in {"ok", "unsent", "lost"} :
       SeckillHandler(u, s, eval)

\* ---------------------------------------------------------------- cart

\* AddItem: the quantity of the field after the command, `old` being 0 when
\* the field is missing. HIncrBy adds to it; the HSet of the other source
\* replaces it.
AddItem_Quantity(old, quantity) ==
  IF cartBuild = "incr" THEN old + quantity ELSE quantity

\* AddItem: one Redis command on cart:<user>; nothing changes when it fails.
AddItem(userId, skuId, quantity, ok) ==
  /\ cartOps < MaxCartOps
  /\ cartOps' = cartOps + 1
  /\ cart' = IF ok THEN [cart EXCEPT ![userId][skuId] = AddItem_Quantity(@, quantity)]
             ELSE cart
  /\ cartWant' = IF ok THEN [cartWant EXCEPT ![userId][skuId] = @ + quantity]
                 ELSE cartWant
  /\ UNCHANGED <<build, gateVars, stockVars, orderVars, pipeVars, gwVars, boot, ship,
                 cartBuild, orderBuild, cart0, ck, ckRows, ckTokens>>

\* DeleteItem: HDel of the field. The source with the HSet has no DeleteItem:
\* the embedded UnimplementedCartServiceServer answers and nothing changes.
DeleteItem(userId, skuId, ok) ==
  /\ cartOps < MaxCartOps
  /\ cartOps' = cartOps + 1
  /\ cart' = IF ok /\ cartBuild = "incr" THEN [cart EXCEPT ![userId][skuId] = 0] ELSE cart
  /\ cartWant' = IF ok THEN [cartWant EXCEPT ![userId][skuId] = 0] ELSE cartWant
  /\ UNCHANGED <<build, gateVars, stockVars, orderVars, pipeVars, gwVars, boot, ship,
                 cartBuild, orderBuild, cart0, ck, ckRows, ckTokens>>

\* EmptyCart: Del of cart:<user>.
EmptyCart(userId, ok) ==
  /\ cartOps < MaxCartOps
  /\ cartOps' = cartOps + 1
  /\ cart' = IF ok THEN [cart EXCEPT ![userId] = [s \in Skus |-> 0]] ELSE cart
  /\ cartWant' = IF ok THEN [cartWant EXCEPT ![userId] = [s \in Skus |-> 0]] ELSE cartWant
  /\ UNCHANGED <<build, gateVars, stockVars, orderVars, pipeVars, gwVars, boot, ship,
                 cartBuild, orderBuild, cart0, ck, ckRows, ckTokens>>

InitCart(builds) ==
  /\ cartBuild \in builds
  /\ cartWant = cart
  /\ cartOps = 0

\* The cart service takes no part.
InitCartOff ==
  /\ cartBuild = "incr"
  /\ cartWant = <<>>
  /\ cartOps = 0

NextCart ==
  \/ \E u \in Users, s \in Skus, q \in 1..MaxCount, ok \in BOOLEAN : AddItem(u, s, q, ok)
  \/ \E u \in Users, s \in Skus, ok \in BOOLEAN : DeleteItem(u, s, ok)
  \/ \E u \in Users, ok \in BOOLEAN : EmptyCart(u, ok)

\* ------------------------------------------------ order service start-up

\* The start-up takes no part: the order service is up.
InitBootOff == boot = <<>>

\* for i := 0; i < 10; i++
MaxAttempts == 10

\* initRabbitMQ after Dial: Channel, ExchangeDeclare (DLX), QueueDeclare
\* (close queue), QueueBind, QueueDeclare (delay queue), QueueDeclare
\* (seckill queue), in that order; step 1 is Dial.
InitSteps == 7

BootStart == [pc |-> "loop", i |-> 0, step |-> 0, calls |-> 0, mqConn |-> "nil",
              mqCh |-> "nil", consumers |-> 0, succeeded |-> FALSE]

\* An attempt returned an error: log, time.Sleep(2 * time.Second), i++.
Retry(b) == [b EXCEPT !.pc = "loop", !.step = 0, !.i = @ + 1]

\* main, the loop test, and initRabbitMQ up to s.mqConn, err = amqp.Dial(...):
\* a failed Dial leaves s.mqConn nil and ends the attempt.
initRabbitMQ_Dial(ok) ==
  /\ boot.pc = "loop" /\ boot.i < MaxAttempts
  /\ boot' = IF ok
               THEN [boot EXCEPT !.pc = "init", !.step = 2, !.calls = @ + 1, !.mqConn = "open"]
               ELSE Retry([boot EXCEPT !.calls = @ + 1, !.mqConn = "nil"])
  /\ UNCHANGED <<build, gateVars, stockVars, orderVars, pipeVars, shopVars, gwVars, cartVars, ship>>

\* s.mqCh, err = s.mqConn.Channel(): a failure leaves s.mqCh nil, with
\* s.mqConn set.
initRabbitMQ_Channel(ok) ==
  /\ boot.pc = "init" /\ boot.step = 2
  /\ boot' = IF ok THEN [boot EXCEPT !.step = 3, !.mqCh = "open"]
             ELSE Retry([boot EXCEPT !.mqCh = "nil"])
  /\ UNCHANGED <<build, gateVars, stockVars, orderVars, pipeVars, shopVars, gwVars, cartVars, ship>>

\* One of the five declarations on s.mqCh: the broker refuses it with a
\* channel exception, which closes the channel, and the error is returned;
\* after the last one initRabbitMQ returns nil and the loop breaks.
initRabbitMQ_Declare(ok) ==
  /\ boot.pc = "init" /\ boot.step \in 3..InitSteps
  /\ boot' = IF ~ok THEN Retry([boot EXCEPT !.mqCh = "closed"])
             ELSE IF boot.step < InitSteps THEN [boot EXCEPT !.step = @ + 1]
             ELSE [boot EXCEPT !.pc = "after", !.step = 0, !.succeeded = TRUE]
  /\ UNCHANGED <<build, gateVars, stockVars, orderVars, pipeVars, shopVars, gwVars, cartVars, ship>>

\* main, the loop ends at i = 10.
main_Exhausted ==
  /\ boot.pc = "loop" /\ boot.i >= MaxAttempts
  /\ boot' = [boot EXCEPT !.pc = "after"]
  /\ UNCHANGED <<build, gateVars, stockVars, orderVars, pipeVars, shopVars, gwVars, cartVars, ship>>

\* main: if srv.mqConn != nil { ...; srv.startConsumer() } else { log }
main_AfterLoop ==
  /\ boot.pc = "after"
  /\ boot' = [boot EXCEPT !.pc = IF boot.mqConn # "nil" THEN "consume" ELSE "register"]
  /\ UNCHANGED <<build, gateVars, stockVars, orderVars, pipeVars, shopVars, gwVars, cartVars, ship>>

\* startConsumer: s.mqCh.Consume for the close queue, then for the seckill
\* queue: on a nil channel the call panics, on a closed one it returns an
\* error and log.Fatalf ends the process; each success starts a goroutine.
startConsumer_Consume ==
  /\ boot.pc = "consume"
  /\ boot' = IF boot.mqCh = "nil" THEN [boot EXCEPT !.pc = "panic"]
             ELSE IF boot.mqCh = "closed" THEN [boot EXCEPT !.pc = "fatal"]
             ELSE [boot EXCEPT !.consumers = @ + 1,
                               !.pc = IF boot.consumers = 1 THEN "register" ELSE "consume"]
  /\ UNCHANGED <<build, gateVars, stockVars, orderVars, pipeVars, shopVars, gwVars, cartVars, ship>>

\* main: RegisterOrderServiceServer, net.Listen, RegisterService, s.Serve.
main_Serve ==
  /\ boot.pc = "register"
  /\ boot' = [boot EXCEPT !.pc = "serving"]
  /\ UNCHANGED <<build, gateVars, stockVars, orderVars, pipeVars, shopVars, gwVars, cartVars, ship>>

InitBoot == boot = BootStart

NextBoot ==
  \/ \E ok \in BOOLEAN : initRabbitMQ_Dial(ok)
  \/ \E ok \in BOOLEAN : initRabbitMQ_Channel(ok)
  \/ \E ok \in BOOLEAN : initRabbitMQ_Declare(ok)
  \/ main_Exhausted
  \/ main_AfterLoop
  \/ startConsumer_Consume
  \/ main_Serve

\* ------------------------------------------------------ specifications

\* The flash sale alone: the relational store is as seeded and at rest.
InitSpecGate ==
  /\ build \in {"main", "mq"}
  /\ InitGate
  /\ InitStock({MaxStock})
  /\ rowLocking
  /\ InitOrders({PENDING})
  /\ InitPipeOff
  /\ InitShopOff
  /\ InitGatewayOff
  /\ InitCartOff
  /\ InitBootOff
  /\ InitShip

SpecGate == InitSpecGate /\ [][NextGate]_vars

\* The inventory service alone, any seeded stock: Redis empty, no flash call.
InitSpecStock ==
  /\ build \in {"main", "mq"}
  /\ InitGate
  /\ productMq # "nil"
  /\ InitStock(0..MaxStock)
  /\ InitOrders({PENDING})
  /\ InitPipeOff
  /\ InitShopOff
  /\ InitGatewayOff
  /\ InitCartOff
  /\ InitBootOff
  /\ InitShip

SpecStock == InitSpecStock /\ [][NextStock]_vars

\* The order service and the admin service on orders already placed: no
\* flash sale, and the product service serves only the rollbacks of cancels.
InitSpecOrder ==
  /\ build = "mq"
  /\ InitGate
  /\ productMq = "ok"
  /\ InitStock({MaxStock})
  /\ rowLocking
  /\ InitOrders({PENDING, PAID, CANCELLED})
  /\ InitPipeOff
  /\ InitShopOff
  /\ InitGatewayOff
  /\ InitCartOff
  /\ InitBootOff
  /\ InitShip

SpecOrder == InitSpecOrder /\ [][NextOrder]_vars

\* The seckill consumer after a flash sale: no other order is touched.
InitSpecSeckill ==
  /\ build = "mq"
  /\ InitGateSold(SUBSET Users)
  /\ InitStock({MaxStock})
  /\ rowLocking
  /\ InitOrders({PENDING})
  /\ InitPipe({0, 1})
  /\ InitShopOff
  /\ InitGatewayOff
  /\ InitCartOff
  /\ InitBootOff
  /\ InitShip

SpecSeckill == InitSpecSeckill /\ [][NextSeckill]_vars

\* A call id is left for every delay message still to be delivered: the
\* requests of clients do not use up the ids the consumer will need.
SlotLeft ==
  LET idle == {c \in OcCalls : oc[c].pc = "idle"}
      queued == {o \in Orders : delayQ[o] > 0}
  IN Cardinality(idle) > Cardinality(queued)

\* The steps that end a request or a delivery once it has begun, the store
\* and the product service answering every call.
NextFinish ==
  \/ \E c \in OcCalls : MarkOrderPaid_UpdateColumn(c, TRUE)
  \/ \E c \in OcCalls : cancelOrderLogic_UpdateColumn(c, TRUE)
  \/ \E c \in OcCalls : cancelOrderLogic_RollbackStock(c, TRUE)

\* The broker hands a matured delay message to the consumer.
NextClose == \E c \in OcCalls, o \in Orders : startConsumer_Close(c, o)

NextExpiry ==
  \/ \E c \in OcCalls, o \in Orders : SlotLeft /\ MarkOrderPaid_First(c, o)
  \/ \E c \in OcCalls, o \in Orders : SlotLeft /\ CancelOrder(c, o)
  \/ \E o \in Orders : ordStatus[o] = PAID /\ ShipOrder(o, TRUE)
  \/ NextClose
  \/ NextFinish

\* Orders placed, the delay message of the first still in the broker, those
\* of the others delivered or not; nothing fails, the broker delivers every
\* delay message in the end and every handler that has begun runs on.
InitSpecExpiry ==
  /\ build = "mq"
  /\ InitGate
  /\ productMq = "ok"
  /\ InitStock({MaxStock})
  /\ rowLocking
  /\ ordStatus \in [Orders -> {PENDING, PAID}]
  /\ hist = [o \in Orders |-> PathTo(ordStatus[o])]
  /\ delayQ \in [Orders -> {0, 1}]
  /\ \A o \in Orders : (ordStatus[o] = PENDING \/ o = 1) => delayQ[o] = 1
  /\ oc = [c \in OcCalls |-> IdleOc]
  /\ acked = [o \in Orders |-> 0]
  /\ InitPipeOff
  /\ InitShopOff
  /\ InitGatewayOff
  /\ InitCartOff
  /\ InitBootOff
  /\ InitShip

SpecExpiry ==
  InitSpecExpiry /\ [][NextExpiry]_vars /\ WF_vars(NextClose) /\ WF_vars(NextFinish)

\* Both consumers of the order service: delay messages of orders placed,
\* some of them cancelled since, and the message of at most one winner.
InitSpecConsumers ==
  /\ build = "mq"
  /\ InitGateSold({{}, {1}})
  /\ InitStock({MaxStock})
  /\ rowLocking
  /\ InitOrders({PENDING, CANCELLED})
  /\ InitPipe({0, 1})
  /\ InitShopOff
  /\ InitGatewayOff
  /\ InitCartOff
  /\ InitBootOff
  /\ InitShip

SpecConsumers == InitSpecConsumers /\ [][NextConsumers]_vars

\* The checkout alone, under either source of the order service: every user
\* has the same lines in the cart, the stock of SkuID is anything up to
\* MaxStock.
InitSpecCheckout ==
  /\ build = "main"
  /\ InitGate
  /\ InitStock(0..MaxStock)
  /\ rowLocking
  /\ InitOrders({PENDING})
  /\ InitPipeOff
  /\ InitShop({"main", "latest"},
              {CartsOf(k, q) : k \in 0..NumSkus, q \in 1..MaxCount})
  /\ InitGatewayOff
  /\ InitCartOff
  /\ InitBootOff
  /\ InitShip

SpecCheckout == InitSpecCheckout /\ [][NextCheckout]_vars

\* The gateway in front of the product service of src/apps/product/main.go,
\* the flash sale of SkuID armed with MaxQuota units.
InitSpecGateway ==
  /\ build = "main"
  /\ InitGateArmed
  /\ InitStock({MaxStock})
  /\ rowLocking
  /\ InitOrders({PENDING})
  /\ InitPipeOff
  /\ InitShopOff
  /\ InitGateway
  /\ InitCartOff
  /\ InitBootOff
  /\ InitShip

SpecGateway == InitSpecGateway /\ [][NextGateway]_vars

\* The cart service alone, under either AddItem, the carts empty.
InitSpecCart ==
  /\ build = "main"
  /\ InitGate
  /\ InitStock({MaxStock})
  /\ rowLocking
  /\ InitOrders({PENDING})
  /\ InitPipeOff
  /\ InitShop({"latest"}, {CartsOf(0, 0)})
  /\ InitGatewayOff
  /\ InitCart({"incr", "hset"})
  /\ InitBootOff
  /\ InitShip

SpecCart == InitSpecCart /\ [][NextCart]_vars

\* createSeckillOrder places one order per winner ("SK-<user>-<sku>"): the
\* flash order of user u is order u of the orders placed.
FlashOrder(u) == u

\* The flash sale and the cancellation of its orders: the flash order of a
\* user can be cancelled, by CancelOrder or by the expiry of its delay
\* message, once the user is in winners:<sku>.
NextRound ==
  \/ NextGate
  \/ \E c \in OcCalls, u \in Users :
       u \in kvWinners[SkuID] /\ CancelOrder(c, FlashOrder(u))
  \/ \E c \in OcCalls, u \in Users :
       u \in kvWinners[SkuID] /\ startConsumer_Close(c, FlashOrder(u))
  \/ \E c \in OcCalls, ok \in BOOLEAN : cancelOrderLogic_UpdateColumn(c, ok)
  \/ \E c \in OcCalls, ok \in BOOLEAN : cancelOrderLogic_RollbackStock(c, ok)

InitSpecRound ==
  /\ build = "mq"
  /\ InitGate
  /\ productMq = "ok"
  /\ InitStock({MaxStock})
  /\ rowLocking
  /\ InitOrders({PENDING})
  /\ InitPipeOff
  /\ InitShopOff
  /\ InitGatewayOff
  /\ InitCartOff
  /\ InitBootOff
  /\ InitShip

SpecRound == InitSpecRound /\ [][NextRound]_vars

\* The whole flash-sale path: the operator arms the SKU, SeckillProduct
\* admits and publishes, the seckill consumer creates the orders.
NextFlash ==
  \/ NextGate
  \/ NextSeckill

InitSpecFlash ==
  /\ build = "mq"
  /\ InitGate
  /\ InitStock({MaxStock})
  /\ rowLocking
  /\ InitOrders({PENDING})
  /\ InitPipe({0, 1})
  /\ InitShopOff
  /\ InitGatewayOff
  /\ InitCartOff
  /\ InitBootOff
  /\ InitShip

SpecFlash == InitSpecFlash /\ [][NextFlash]_vars

\* The start-up of the order service, the broker answering or refusing any
\* call of initRabbitMQ.
InitSpecBoot ==
  /\ build = "mq"
  /\ InitGate
  /\ productMq = "ok"
  /\ InitStock({MaxStock})
  /\ rowLocking
  /\ InitOrders({PENDING})
  /\ InitPipeOff
  /\ InitShopOff
  /\ InitGatewayOff
  /\ InitCartOff
  /\ InitBoot
  /\ InitShip

SpecBoot == InitSpecBoot /\ [][NextBoot]_vars

\* The order service and the admin, who asks to ship any order number
\* whatever the state of the order, the database answering or failing.
NextAdmin ==
  \/ NextOrder
  \/ \E o \in Orders \cup {NoOrder}, ok \in BOOLEAN : ShipOrder(o, ok)

InitSpecAdmin ==
  /\ build = "mq"
  /\ InitGate
  /\ productMq = "ok"
  /\ InitStock({MaxStock})
  /\ rowLocking
  /\ InitOrders({PENDING, PAID, CANCELLED})
  /\ InitPipeOff
  /\ InitShopOff
  /\ InitGatewayOff
  /\ InitCartOff
  /\ InitBootOff
  /\ InitShip

SpecAdmin == InitSpecAdmin /\ [][NextAdmin]_vars

\* The two places of the order service that publish a delay message: the
\* checkout and the seckill consumer, one flash sale won by user 1.
NextTokens ==
  \/ NextCheckout
  \/ NextSeckill

InitSpecTokens ==
  /\ build = "mq"
  /\ InitGateSold({{1}})
  /\ InitStock({MaxStock})
  /\ rowLocking
  /\ InitOrders({PENDING})
  /\ InitPipe({1})
  /\ InitShop({"latest"}, {CartsOf(1, 1)})
  /\ InitGatewayOff
  /\ InitCartOff
  /\ InitBootOff
  /\ InitShip

SpecTokens == InitSpecTokens /\ [][NextTokens]_vars

\* The order service on orders CreateOrder has placed and nobody has
\* touched yet: every one is PENDING, its lines are out of the stock.
InitSpecPlaced ==
  /\ build = "mq"
  /\ InitGate
  /\ productMq = "ok"
  /\ InitStock({MaxStock})
  /\ rowLocking
  /\ InitOrders({PENDING})
  /\ InitPipeOff
  /\ InitShopOff
  /\ InitGatewayOff
  /\ InitCartOff
  /\ InitBootOff
  /\ InitShip

SpecPlaced == InitSpecPlaced /\ [][NextOrder]_vars

\* ------------------------------------------------- claims on the gate

\* The calls on SKU s whose script ran since the operator's last command.
GateRound(s) == {c \in SkCalls : sk[c].sku = s /\ sk[c].cur}
GateClean(s) == \A c \in GateRound(s) : ~sk[c].err
RoundUsers(s) == {sk[c].user : c \in GateRound(s)}
RoundWith(s, r) == {c \in GateRound(s) : ~sk[c].err /\ sk[c].ret = r}

\* C1: for a SKU armed with quota S and an empty winners set, whatever the
\* interleaving of the calls made since (N calls, D distinct users, each
\* answered by the gate), the number of WON results is min(D, S); every
\* winner won once and is in winners:<sku>, which holds the winners only.
C1_FlashNoOversell ==
  \A s \in Skus :
    (epoch[s].armed /\ GateClean(s)) =>
      /\ Cardinality(RoundWith(s, WON)) = Min(Cardinality(RoundUsers(s)), epoch[s].quota)
      /\ \A c1, c2 \in RoundWith(s, WON) : sk[c1].user = sk[c2].user => c1 = c2
      /\ {sk[c].user : c \in RoundWith(s, WON)} = kvWinners[s]

\* Two users race for a quota of one: one WON, one SOLD_OUT.
C1_Witness ==
  \E s \in Skus :
    /\ epoch[s].armed /\ GateClean(s)
    /\ Cardinality(GateRound(s)) = NumSkCalls
    /\ Cardinality(RoundUsers(s)) = 2
    /\ epoch[s].quota = 1
    /\ Cardinality(RoundWith(s, WON)) = 1
    /\ RoundWith(s, SOLD_OUT) # {}

\* C2: when all the calls made on an armed SKU (quota >= 1) are one user's,
\* exactly one of them is WON, the others are DUP and the counter went down
\* by one; and whoever else calls, no user wins one SKU twice in a round.
C2_OneWonPerUser ==
  \A s \in Skus, u \in Users :
    LET mine == {c \in GateRound(s) : sk[c].user = u} IN
      /\ Cardinality({c \in mine : ~sk[c].err /\ sk[c].ret = WON}) <= 1
      /\ (epoch[s].armed /\ epoch[s].quota >= 1 /\ GateClean(s)
            /\ mine # {} /\ GateRound(s) = mine) =>
           /\ Cardinality(RoundWith(s, WON)) = 1
           /\ Cardinality(RoundWith(s, DUP)) = Cardinality(mine) - 1
           /\ kvStock[s] = <<epoch[s].quota - 1>>

\* One user, all the calls, one SKU armed with more than one slot.
C2_Witness ==
  \E s \in Skus, u \in Users :
    /\ epoch[s].armed /\ epoch[s].quota = 2 /\ GateClean(s)
    /\ Cardinality(GateRound(s)) = NumSkCalls
    /\ RoundUsers(s) = {u}
    /\ Cardinality(RoundWith(s, DUP)) = NumSkCalls - 1

\* A step in which call c gets the script's result.
AdmitStep(c) == sk[c].pc = "idle" /\ sk'[c].pc = "evaled"

C3_Step ==
  \A c \in SkCalls :
    AdmitStep(c) =>
      LET s == sk'[c].sku
          u == sk'[c].user
      IN /\ sk'[c].ret \in {WON, DUP, NOT_ARMED, SOLD_OUT}
         /\ sk'[c].ret = WON =>
              /\ kvStock[s] # <<>>
              /\ kvStock'[s] = <<kvStock[s][1] - 1>>
              /\ u \notin kvWinners[s]
              /\ kvWinners'[s] = kvWinners[s] \cup {u}
         /\ sk'[c].ret # WON => (kvStock'[s] = kvStock[s] /\ kvWinners'[s] = kvWinners[s])
         /\ \A t \in Skus \ {s} : kvStock'[t] = kvStock[t] /\ kvWinners'[t] = kvWinners[t]

\* C3: the script is all-or-nothing: the step that returns WON takes one
\* from stock:<sku> and adds the user to winners:<sku>, the step that
\* returns DUP, NOT_ARMED or SOLD_OUT changes neither; so an armed SKU
\* never shows a decrement without its winner or a winner without its
\* decrement.
C3_AllOrNothing ==
  /\ [][C3_Step]_vars
  /\ [](\A s \in Skus : epoch[s].armed =>
          /\ kvStock[s] # <<>>
          /\ kvStock[s][1] + Cardinality(kvWinners[s]) = epoch[s].quota)

\* One round with a WON that took the last slot and a call that changed nothing.
C3_Witness ==
  \E s \in Skus :
    /\ epoch[s].armed /\ epoch[s].quota = 1
    /\ kvStock[s] = <<0>> /\ Cardinality(kvWinners[s]) = 1
    /\ RoundWith(s, WON) # {}
    /\ RoundWith(s, DUP) \cup RoundWith(s, SOLD_OUT) # {}

\* C4: every answered SeckillProduct call answers WON with success,
\* SOLD_OUT with RESOURCE_EXHAUSTED, DUP with ALREADY_EXISTS, NOT_ARMED with
\* FAILED_PRECONDITION and a failed Eval with INTERNAL.
C4_SeckillMapping ==
  \A c \in SkCalls :
    sk[c].pc = "done" =>
      sk[c].code = (CASE sk[c].err -> "Internal"
                      [] ~sk[c].err /\ sk[c].ret = WON -> "OK"
                      [] ~sk[c].err /\ sk[c].ret = SOLD_OUT -> "ResourceExhausted"
                      [] ~sk[c].err /\ sk[c].ret = DUP -> "AlreadyExists"
                      [] ~sk[c].err /\ sk[c].ret = NOT_ARMED -> "FailedPrecondition")

\* ---------------------------------------------- claims on the inventory

RECURSIVE SumCounts(_)
SumCounts(cs) ==
  IF cs = {} THEN 0
  ELSE LET c == CHOOSE x \in cs : TRUE IN st[c].count + SumCounts(cs \ {c})

\* The calls of one kind on SKU s that answered success.
Succeeded(kind, s) ==
  {c \in StCalls : st[c].pc = "done" /\ st[c].kind = kind /\ st[c].sku = s /\ st[c].res = "OK"}

AllStCallsComplete == \A c \in StCalls : st[c].pc \in {"idle", "done"}
NoDbFault == \A c \in StCalls : ~st[c].fault

\* C5: the stock is never negative, and once the DecreaseStock and
\* RollbackStock calls made so far have completed (every UPDATE statement
\* of theirs having run), stock = S0 - sum of the succeeded decreases
\* + sum of the rollbacks.
C5_StandardNoOversell ==
  \A s \in Skus :
    /\ dbStock[s] >= 0
    /\ (AllStCallsComplete /\ NoDbFault) =>
         dbStock[s] = stock0[s] - SumCounts(Succeeded("dec", s)) + SumCounts(Succeeded("rb", s))

C6_Step ==
  \A c \in StCalls :
    LET s == st'[c].sku
        n == st'[c].count
    IN /\ (st[c].pc = "idle" /\ st'[c].pc # "idle" /\ st'[c].kind = "dec" /\ s \in Skus) =>
            /\ dbStock' = dbStock
            /\ IF dbStock[s] < n
                 THEN st'[c].pc = "done" /\ st'[c].res = "FailedPrecondition"
                 ELSE st'[c].pc = "update" /\ st'[c].read = dbStock[s]
       /\ (st[c].pc = "update" /\ st'[c].pc = "done" /\ st[c].kind = "dec" /\ ~st'[c].fault) =>
            /\ st'[c].res = "OK"
            /\ dbStock'[s] = st[c].read - n
            /\ rowLocking => dbStock'[s] = dbStock[s] - n
            /\ \A r \in Skus \ {s} : dbStock'[r] = dbStock[r]

\* C6: a DecreaseStock call that finds stock < count answers
\* FAILED_PRECONDITION at once and changes no stock; one that finds
\* stock >= count goes on, and (its UPDATE having run) answers success and
\* commits the stock it found minus count, which under the row lock is the
\* row's stock minus count.
C6_DecreaseStock == [][C6_Step]_vars

\* On a stock of 1 with the row lock: a decrease of 2 was refused, a decrease
\* of 1 was accepted and emptied the stock.
C6_Witness ==
  \E c, d \in StCalls :
    /\ rowLocking /\ stock0[SkuID] = 1 /\ dbStock[SkuID] = 0
    /\ st[c].pc = "done" /\ st[c].kind = "dec" /\ st[c].sku = SkuID
    /\ st[c].res = "FailedPrecondition" /\ st[c].count = 2
    /\ st[d].pc = "done" /\ st[d].kind = "dec" /\ st[d].sku = SkuID
    /\ st[d].res = "OK" /\ st[d].count = 1

\* -------------------------------------------------- claims on orders

IsPrefix(p, q) == Len(p) <= Len(q) /\ \A i \in 1..Len(p) : p[i] = q[i]

\* C7: the status values an order has shown are a prefix of
\* PENDING -> PAID -> SHIPPED or of PENDING -> CANCELLED.
C7_OrderMonotone ==
  \A o \in Orders :
    \/ IsPrefix(hist[o], <<PENDING, PAID, SHIPPED>>)
    \/ IsPrefix(hist[o], <<PENDING, CANCELLED>>)

C8_Step ==
  \A c \in OcCalls :
    LET o == oc'[c].order
    IN /\ (oc[c].pc = "idle" /\ oc'[c].kind = "pay" /\ o \in Orders) =>
            CASE ordStatus[o] = PAID ->
                   oc'[c].pc = "done" /\ oc'[c].res = "OK" /\ ordStatus' = ordStatus
              [] ordStatus[o] = PENDING -> oc'[c].pc = "write"
              [] OTHER ->
                   oc'[c].pc = "done" /\ oc'[c].res # "OK" /\ ordStatus' = ordStatus
       /\ (oc[c].pc = "write" /\ oc[c].kind = "pay" /\ oc'[c].pc = "done") =>
            IF ordStatus[o] \in {CANCELLED, SHIPPED} THEN ordStatus' = ordStatus
            ELSE oc'[c].res = "OK" => ordStatus'[o] = PAID

\* C8: MarkOrderPaid on a CANCELLED or SHIPPED order answers failure and
\* leaves the status as it is; on a PAID order it answers success without a
\* write; on a PENDING order it sets PAID.
C8_MarkOrderPaid == [][C8_Step]_vars

IsCancel(c) == oc[c].kind \in {"cancel", "expire"}

C9_Step ==
  \A c \in OcCalls :
    LET o == oc'[c].order
    IN (/\ oc[c].pc = "idle" /\ oc'[c].kind \in {"cancel", "expire"}
        /\ o \in Orders /\ ordStatus[o] \in {PAID, CANCELLED}) =>
         /\ oc'[c].pc = "done" /\ oc'[c].res = "OK" /\ oc'[c].rolled = 0
         /\ ordStatus' = ordStatus /\ hist' = hist /\ dbStock' = dbStock

\* C9: a cancel (CancelOrder or the expiry consumer's) of an order that is
\* CANCELLED or PAID answers success in its one step, which changes no order
\* status and no stock; the call makes no RollbackStock call.
C9_CancelIdempotent ==
  /\ [][C9_Step]_vars
  /\ [](\A c \in OcCalls :
          (IsCancel(c) /\ oc[c].read \in {PAID, CANCELLED}) =>
             oc[c].pc = "done" /\ oc[c].res = "OK" /\ oc[c].rolled = 0)

\* A CancelOrder of a paid order and an expiry of a cancelled one, both
\* answered, the stock as it was.
C9_Witness ==
  \E c, d \in OcCalls :
    /\ oc[c].pc = "done" /\ oc[c].kind = "cancel" /\ oc[c].read = PAID
    /\ oc[d].pc = "done" /\ oc[d].kind = "expire" /\ oc[d].read = CANCELLED
    /\ ordStatus[oc[c].order] = PAID /\ ordStatus[oc[d].order] = CANCELLED
    /\ dbStock = stock0

\* The MarkOrderPaid calls on order o that found it.
Pays(o) == {c \in OcCalls : oc[c].kind = "pay" /\ oc[c].order = o}

\* How many times order o has gone from a to b.
Transitions(o, a, b) ==
  Cardinality({i \in 1..(Len(hist[o]) - 1) : hist[o][i] = a /\ hist[o][i + 1] = b})

C10_Step ==
  \A c \in OcCalls :
    (oc[c].pc # "done" /\ oc'[c].pc = "done" /\ oc'[c].kind = "pay"
       /\ oc'[c].order \in Orders /\ oc'[c].res = "OK") =>
      ordStatus'[oc'[c].order] = PAID

\* C10: of two MarkOrderPaid calls on an order, the first of which found it
\* PENDING, both answer success (their statements having run), the status
\* is PAID when either completes, and the order goes PENDING -> PAID at most
\* once.
C10_MarkPaidConcurrent ==
  /\ [][C10_Step]_vars
  /\ [](\A o \in Orders :
          /\ Transitions(o, PENDING, PAID) <= 1
          /\ \A c, d \in Pays(o) :
               (c # d /\ oc[c].read = PENDING /\ oc[c].pc = "done" /\ oc[d].pc = "done"
                  /\ oc[c].res # "Internal" /\ oc[d].res # "Internal") =>
                 oc[c].res = "OK" /\ oc[d].res = "OK")

\* Two calls that both found the order PENDING and both wrote: PAID, once.
C10_Witness ==
  \E o \in Orders : \E c, d \in Pays(o) :
    /\ c # d /\ oc[c].read = PENDING /\ oc[d].read = PENDING
    /\ oc[c].pc = "done" /\ oc[d].pc = "done" /\ oc[c].res = "OK" /\ oc[d].res = "OK"
    /\ ordStatus[o] = PAID /\ hist[o] = <<PENDING, PAID>>

\* ------------------------------------------- claims on the consumers

\* The seckill rows of user u for SKU s.
RowsOf(u, s) == {r \in skRows : r.user = u /\ r.sku = s}

\* C11: a published event of (u, s) never gives more than one order row,
\* its order_no is "SK-u-s", a row exists only for a delivered event, and once
\* a delivery of the event has been handled and acknowledged (GetProduct and
\* the insert never having failed on it) there is exactly one row, however
\* many times the event was delivered.
C11_FlashIdempotence ==
  \A m \in Msgs :
    /\ Cardinality(RowsOf(m[1], m[2])) <= 1
    /\ \A r \in RowsOf(m[1], m[2]) : r.no = <<"SK", m[1], m[2]>> /\ skDelivered[m] >= 1
    /\ (skAcked[m] >= 1 /\ ~skFault[m]) => Cardinality(RowsOf(m[1], m[2])) = 1

\* Two winners; the event of one of them was delivered and acknowledged
\* twice: one row each.
C11_Witness ==
  \E m, n \in Msgs :
    /\ m # n /\ skDelivered[m] = 2 /\ skAcked[m] = 2 /\ skAcked[n] = 1
    /\ ~skFault[m] /\ ~skFault[n]
    /\ Cardinality(RowsOf(m[1], m[2])) = 1 /\ Cardinality(RowsOf(n[1], n[2])) = 1
    /\ Cardinality(skRows) = 2

\* The deliveries of order o's delay message, in hand or handled.
Expiries(o) == {c \in OcCalls : oc[c].kind = "expire" /\ oc[c].order = o}

C20_Step ==
  \A m \in Msgs : seckillQ'[m] > seckillQ[m] => sc' = sc /\ skAcked' = skAcked

\* C20: every delivery either consumer has finished with was acknowledged
\* once, whatever the outcome, and the one it has in hand not yet; no
\* consumer puts a message back: a delay message leaves its queue for good,
\* and a seckill event is queued again only by the broker.
C20_ConsumersAck ==
  /\ [][C20_Step]_vars
  /\ [](/\ \A m \in Msgs \cup {Malformed} :
             skAcked[m] = skDelivered[m] - (IF sc.pc # "idle" /\ sc.key = m THEN 1 ELSE 0)
        /\ \A o \in Orders :
             /\ acked[o] = Cardinality({c \in Expiries(o) : oc[c].pc = "done"})
             /\ Cardinality(Expiries(o)) + delayQ[o] = 1)

\* Acknowledged: a malformed event, an event on which createSeckillOrder
\* failed, its redelivery that made the order, a delay message whose cancel
\* failed with Internal, and one whose order was cancelled already.
C20_Witness ==
  /\ skAcked[Malformed] = 1
  /\ \E m \in Msgs : skAcked[m] = 2 /\ skFault[m] /\ RowsOf(m[1], m[2]) # {}
  /\ \E c, d \in OcCalls :
       /\ oc[c].kind = "expire" /\ oc[c].pc = "done" /\ oc[c].res = "Internal"
       /\ acked[oc[c].order] = 1
       /\ oc[d].kind = "expire" /\ oc[d].pc = "done" /\ oc[d].read = CANCELLED
       /\ acked[oc[d].order] = 1

\* -------------------------------------------- claims on the expiry path

C12_Step ==
  \A c \in OcCalls :
    LET o == oc'[c].order
    IN (/\ oc[c].pc = "idle" /\ oc'[c].kind = "expire"
        /\ \E i \in 1..Len(hist[o]) : hist[o][i] = PAID) =>
         /\ oc'[c].read = ordStatus[o] /\ oc'[c].read # PENDING
         /\ oc'[c].pc = "done" /\ oc'[c].res = "OK" /\ oc'[c].rolled = 0
         /\ ordStatus' = ordStatus /\ hist' = hist /\ dbStock' = dbStock

\* C12: when a payment of order o has committed before the expiry consumer
\* takes o's delay message, the consumer's cancel reads the status as it is
\* (PAID while nothing else has moved the order), changes no status and no
\* stock, and calls RollbackStock for no line.
C12_ExpiryHonorsPayment ==
  /\ [][C12_Step]_vars
  /\ [](\A c \in OcCalls :
          (oc[c].kind = "expire" /\ oc[c].read = PAID) =>
             oc[c].pc = "done" /\ oc[c].res = "OK" /\ oc[c].rolled = 0)

\* A MarkOrderPaid that found the order PENDING and wrote, then the expiry of
\* the same order, which saw PAID; the order is PAID, the stock as it was.
C12_Witness ==
  \E c, d \in OcCalls :
    /\ oc[c].kind = "pay" /\ oc[c].pc = "done" /\ oc[c].read = PENDING /\ oc[c].res = "OK"
    /\ oc[d].kind = "expire" /\ oc[d].pc = "done" /\ oc[d].read = PAID
    /\ oc[d].order = oc[c].order /\ ordStatus[oc[c].order] = PAID
    /\ hist[oc[c].order] = <<PENDING, PAID>> /\ dbStock = stock0

C19_Step ==
  \A c \in OcCalls :
    LET o == oc[c].order
    IN /\ (IsCancel(c) /\ oc[c].pc = "write" /\ oc'[c] # oc[c] /\ oc'[c].res # "Internal") =>
            /\ ordStatus'[o] = CANCELLED /\ dbStock' = dbStock
            /\ oc'[c].pc = "rollback" /\ oc'[c].next = 1 /\ oc'[c].rolled = 0
       /\ (IsCancel(c) /\ oc[c].pc = "rollback" /\ oc'[c] # oc[c]) =>
            LET item == Items(o)[oc[c].next]
            IN /\ ordStatus' = ordStatus
               /\ oc'[c].rolled = oc[c].rolled + 1
               /\ \/ dbStock' = [dbStock EXCEPT ![item.sku] = @ + item.qty]
                  \/ dbStock' = dbStock
               /\ IF oc[c].next < Len(Items(o))
                    THEN oc'[c].pc = "rollback" /\ oc'[c].next = oc[c].next + 1
                    ELSE oc'[c].pc = "done" /\ oc'[c].res = "OK"

\* C19: a cancel that found the order PENDING first sets CANCELLED, then
\* calls RollbackStock for the lines one after the other; a call that fails
\* changes nothing: the next line is tried, the status is not touched, and
\* after the last line the cancel answers success having made one call for
\* each line.
C19_CancelRollsBack ==
  /\ [][C19_Step]_vars
  /\ [](\A c \in OcCalls :
          (IsCancel(c) /\ oc[c].read = PENDING) =>
             /\ oc[c].pc = "rollback" => oc[c].rolled = oc[c].next - 1
             /\ (oc[c].pc = "done" /\ oc[c].res # "Internal") =>
                  oc[c].res = "OK" /\ oc[c].rolled = Len(Items(oc[c].order)))

\* The one cancel of a two-line order: RollbackStock failed for the first
\* line and ran for the second; success, CANCELLED.
C19_Witness ==
  \E c \in OcCalls :
    LET o == oc[c].order
    IN /\ oc[c].kind = "cancel" /\ oc[c].pc = "done" /\ oc[c].res = "OK"
       /\ oc[c].read = PENDING /\ Len(Items(o)) = 2 /\ oc[c].rolled = 2
       /\ ordStatus[o] = CANCELLED
       /\ dbStock[Items(o)[1].sku] = stock0[Items(o)[1].sku]
       /\ dbStock[Items(o)[2].sku] = stock0[Items(o)[2].sku] + Items(o)[2].qty
       /\ \A d \in OcCalls \ {c} : oc[d].pc = "idle"

\* The units of SKU s the cancels have handed back to the product service.
RolledQty(s) ==
  LET RECURSIVE Sum(_)
      Sum(cs) ==
        IF cs = {} THEN 0
        ELSE LET c == CHOOSE x \in cs : TRUE
                 its == Items(oc[c].order)
                 mine == {i \in 1..oc[c].rolled : its[i].sku = s}
             IN Cardinality(mine) + Sum(cs \ {c})
  IN Sum({c \in OcCalls : IsCancel(c) /\ oc[c].rolled > 0})

\* Order o is cancelled, a cancel of it has called RollbackStock for every
\* line and returned, and the stock holds every unit handed back.
Expired(o) ==
  /\ ordStatus[o] = CANCELLED
  /\ \E c \in OcCalls :
       /\ IsCancel(c) /\ oc[c].order = o /\ oc[c].pc = "done"
       /\ oc[c].rolled = Len(Items(o))
  /\ \A s \in Skus : dbStock[s] = stock0[s] + RolledQty(s)

QtyOf(c, s, upto) ==
  LET mine == {i \in 1..upto : ck[c].items[i].sku = s}
  IN IF mine = {} THEN 0 ELSE ck[c].items[CHOOSE i \in mine : TRUE].qty

\* Units of SKU s: those the calls of `cs` took in their first lines (all of
\* them when `whole`).
Units(cs, s, whole) ==
  LET RECURSIVE Sum(_)
      Sum(rest) ==
        IF rest = {} THEN 0
        ELSE LET c == CHOOSE x \in rest : TRUE
             IN QtyOf(c, s, IF whole THEN Len(ck[c].items) ELSE ck[c].n) + Sum(rest \ {c})
  IN Sum(cs)

\* The amount of a sequence of lines at the prices of the product service.
AmountOf(items) ==
  LET RECURSIVE Sum(_)
      Sum(i) == IF i = 0 THEN 0 ELSE Price(items[i].sku) * items[i].qty + Sum(i - 1)
  IN Sum(Len(items))

\* C15: a CreateOrder that ends at a line whose quantity exceeds the stock
\* of its SKU answers FAILED_PRECONDITION and creates no order row; when it
\* is the first line of the only call, the stock is as it was.
C15_OutOfStock ==
  \A c \in CkCalls :
    (ck[c].pc = "done" /\ ck[c].short) =>
      /\ ck[c].code = "FailedPrecondition"
      /\ ckRows[c] = <<>>
      /\ (ck[c].n = 0 /\ \A d \in CkCalls \ {c} : ck[d].pc = "idle") => dbStock = stock0

\* C16: once no call is running and no delay message is waiting, a
\* CreateOrder that answered an error has no order row and the stock of
\* every SKU is what it was, less the lines of the orders still PENDING.
C16_NoPartialEffects ==
  ((\A c \in CkCalls : ck[c].pc \in {"idle", "done"}) /\ ckTokens = {}) =>
    \A c \in CkCalls :
      (ck[c].pc = "done" /\ ck[c].code # "OK") =>
        /\ ckRows[c] = <<>>
        /\ \A s \in Skus :
             dbStock[s] = stock0[s] - Units({d \in CkCalls : ckRows[d] = <<PENDING>>}, s, TRUE)

\* C17: a CreateOrder that answered the order, the commit having gone
\* through and the cart service and the broker having answered, left one row created PENDING with one item
\* per selected cart line at the cart's quantity, a total of the sum of
\* price * quantity, the selected SKUs out of the cart and one delay
\* message; the stock is the initial one less every line taken, plus the
\* lines of the cancelled orders.
C17_HappyPath ==
  \A c \in CkCalls :
    (ck[c].pc = "done" /\ ck[c].code = "OK" /\ ~ck[c].fault) =>
      LET its == ck[c].items
      IN /\ ckRows[c] # <<>> /\ ckRows[c][1] = PENDING
         /\ its # <<>> /\ ck[c].n = Len(its)
         /\ Cardinality({its[i].sku : i \in 1..Len(its)}) = Len(its)
         /\ \A i \in 1..Len(its) :
              /\ its[i].qty > 0 /\ its[i].qty = cart0[ck[c].user][its[i].sku]
              /\ cart[ck[c].user][its[i].sku] = 0
         /\ ck[c].total = AmountOf(its)
         /\ ck[c].published = 1
         /\ (c \in ckTokens) = (ckRows[c] = <<PENDING>>)
         /\ \A s \in Skus :
              dbStock[s] = stock0[s] - Units(CkCalls, s, FALSE)
                             + Units({d \in CkCalls : Len(ckRows[d]) = 2}, s, TRUE)

\* An order of two lines was placed, its delay message waits.
C17_Witness ==
  \E c \in CkCalls :
    /\ ck[c].pc = "done" /\ ck[c].code = "OK" /\ ~ck[c].fault
    /\ Len(ck[c].items) = 2 /\ ck[c].items[1].qty = 2
    /\ ck[c].total = 2 * Price(1) + 2 * Price(2)
    /\ c \in ckTokens /\ dbStock[1] = stock0[1] - 2

\* C18: a CreateOrder with the address of another user is answered
\* PERMISSION_DENIED before any side effect: no line is taken from the
\* stock, no order row is created, no delay message is published.
C18_ForeignAddress ==
  \A c \in CkCalls :
    (ck[c].pc # "idle" /\ ck[c].addr \in Addresses /\ AddrOwner(ck[c].addr) # ck[c].user) =>
      /\ ck[c].pc = "done" /\ ck[c].code = "PermissionDenied"
      /\ ck[c].n = 0 /\ ckRows[c] = <<>> /\ ck[c].published = 0

\* ------------------------------------------------- claims on the gateway

\* C13: in any second the limiter lets at most Threshold requests through,
\* and a rejected request is answered 429 without SeckillProduct being
\* invoked: the counter and the winners of every SKU stay as they were.
C13_RateLimit ==
  /\ [](LET RECURSIVE Sum(_)
            Sum(i) == IF i = 0 THEN 0 ELSE accepted[i] + Sum(i - 1)
        IN Sum(Len(accepted)) <= Threshold)
  /\ [][gwLast'.status = 429 =>
          (~gwLast'.invoked /\ UNCHANGED <<kvStock, kvWinners>>)]_vars

\* ---------------------------------------------------- claims on the cart

\* C21: every line of every cart holds the sum of the quantities added to
\* it since it was last removed by DeleteItem of that SKU or EmptyCart of
\* that user: adds accumulate, and a command touches no other line.
C21_CartAccumulates ==
  \A u \in Users, s \in Skus : cart[u][s] = cartWant[u][s]

\* ------------------------------------------- claims on a flash-sale round

\* A step of the operator: SET seckill:stock:<sku> or DEL seckill:user:<sku>.
ArmingStep == (\E q \in 0..MaxQuota : ArmSet(SkuID, q)) \/ ArmDel(SkuID)

\* User u won SKU s since the operator's last command.
WonInRound(u, s) == \E d \in RoundWith(s, WON) : sk[d].user = u

C22_Step ==
  ~ArmingStep =>
    \A s \in Skus :
      /\ kvStock[s] = <<>> => kvStock'[s] = <<>>
      /\ kvStock[s] # <<>> => (kvStock'[s] # <<>> /\ kvStock'[s][1] <= kvStock[s][1])
      /\ kvWinners[s] \subseteq kvWinners'[s]
      /\ \A c \in SkCalls :
           (AdmitStep(c) /\ sk'[c].sku = s) =>
             /\ (kvStock[s] # <<>> /\ kvStock[s][1] <= 0) => sk'[c].ret \in {SOLD_OUT, DUP}
             /\ (WonInRound(sk'[c].user, s) /\ ordStatus[FlashOrder(sk'[c].user)] = CANCELLED)
                  => sk'[c].ret = DUP

\* C22: the gate never replenishes itself: under every step of the program
\* (the operator's SET and DEL apart), the cancellation and the expiry of a
\* flash order included, stock:<sku> does not go up and winners:<sku> loses
\* no member; when stock:<sku> is at 0 an admit returns SOLD_OUT or DUP; and
\* a user who won in the round and whose flash order was cancelled gets DUP.
C22_NoReplenish == [][C22_Step]_vars

\* The last slot is gone, the winner's flash order was cancelled and its
\* stock rolled back in the database, and the winner then asked again.
C22_Witness ==
  \E c, d \in SkCalls, e \in OcCalls :
    /\ kvStock[SkuID] = <<0>>
    /\ sk[d].cur /\ ~sk[d].err /\ sk[d].sku = SkuID /\ sk[d].ret = WON
    /\ oc[e].order = FlashOrder(sk[d].user) /\ oc[e].pc = "done" /\ oc[e].rolled > 0
    /\ ordStatus[FlashOrder(sk[d].user)] = CANCELLED
    /\ sk[c].cur /\ ~sk[c].err /\ sk[c].sku = SkuID /\ sk[c].user = sk[d].user
    /\ sk[c].ret = DUP

\* A step of the flash-sale path: of a SeckillProduct call (the script, the
\* publish) or of the seckill consumer (the delivery, createSeckillOrder,
\* the acknowledgement).
FlashStep == sk' # sk \/ seckillQ' # seckillQ \/ sc' # sc \/ skRows' # skRows

\* C23: the flash-sale path leaves the stock of the database alone: no step
\* of SeckillProduct, of the publish or of createSeckillOrder begins a
\* DecreaseStock call or changes skus.stock of any SKU.
C23_FlashLeavesDbStock ==
  [][FlashStep => (dbStock' = dbStock /\ st' = st /\ rowLock' = rowLock)]_vars

\* A user won, the message was consumed and the flash order is in the
\* orders table, acknowledged.
C23_Witness ==
  \E c \in SkCalls :
    /\ sk[c].pc = "done" /\ sk[c].code = "OK"
    /\ RowOf(OrderNo(sk[c].user, sk[c].sku))
    /\ skAcked[<<sk[c].user, sk[c].sku>>] > 0
    /\ dbStock = stock0

\* ------------------------------------------------ claims on the start-up

\* C24: the order service calls initRabbitMQ at most 10 times and not again
\* after a success; after a success, and after 10 failures, it goes on to
\* register and serve (it neither panics nor exits); after 10 failures it
\* serves without the two consumers.
C24_BootRetry ==
  /\ boot.calls <= MaxAttempts
  /\ boot.succeeded => boot.pc \notin {"loop", "init"}
  /\ boot.pc \notin {"panic", "fatal"}
  /\ (boot.pc = "serving" /\ ~boot.succeeded) => boot.consumers = 0

\* ------------------------------------- claims on concurrent transitions

\* The status of order o showed v and then w.
Overwritten(o, v, w) ==
  \E i \in 1..(Len(hist[o]) - 1) : hist[o][i] = v /\ hist[o][i + 1] = w

\* C25: a MarkOrderPaid and a cancel (CancelOrder or the expiry consumer) of
\* one order, both begun while it was PENDING, end as if one had run after
\* the other: a PAID status is never overwritten by CANCELLED, and when both
\* have answered the order is PAID and no RollbackStock was called for it,
\* or CANCELLED and RollbackStock was called for each of its lines.
C25_Serialized ==
  \A o \in Orders, c, d \in OcCalls :
    (/\ oc[c].kind = "pay" /\ oc[c].order = o /\ oc[c].read = PENDING
     /\ IsCancel(d) /\ oc[d].order = o /\ oc[d].read = PENDING
     /\ ~Overwritten(o, PAID, SHIPPED)) =>
      /\ ~Overwritten(o, PAID, CANCELLED)
      /\ (oc[c].pc = "done" /\ oc[c].res = "OK" /\ oc[d].pc = "done" /\ oc[d].res = "OK") =>
           \/ ordStatus[o] = PAID /\ oc[d].rolled = 0
           \/ ordStatus[o] = CANCELLED /\ oc[d].rolled = Len(Items(o))

\* The cancels of order o (CancelOrder calls and deliveries of its delay
\* message) that wrote CANCELLED.
Cancelling(o) ==
  {c \in OcCalls : IsCancel(c) /\ oc[c].order = o /\ oc[c].pc \in {"rollback", "done"}
                   /\ oc[c].read = PENDING /\ oc[c].res # "Internal"}

\* How many RollbackStock calls the cancels of order o have made.
RollbacksOf(o) ==
  LET RECURSIVE Sum(_)
      Sum(cs) ==
        IF cs = {} THEN 0
        ELSE LET c == CHOOSE x \in cs : TRUE IN oc[c].rolled + Sum(cs \ {c})
  IN Sum({c \in OcCalls : IsCancel(c) /\ oc[c].order = o})

\* C26: whatever the deliveries of the delay message of an order and
\* however they interleave with a CancelOrder call on it, one of them takes
\* the order from PENDING to CANCELLED and RollbackStock is called at most
\* once for each of its lines.
C26_CancelOnce ==
  \A o \in Orders :
    Cardinality({c \in OcCalls : oc[c].kind = "cancel" /\ oc[c].order = o}) <= 1 =>
      /\ Cardinality(Cancelling(o)) <= 1
      /\ RollbacksOf(o) <= Len(Items(o))

\* ------------------------------------- claims on the order of the tests

C27_Step ==
  \A c \in SkCalls :
    AdmitStep(c) =>
      LET s == sk'[c].sku
          u == sk'[c].user
      IN /\ u \in kvWinners[s] => sk'[c].ret = DUP
         /\ sk'[c].ret = NOT_ARMED => (u \notin kvWinners[s] /\ kvStock[s] = <<>>)
         /\ sk'[c].ret = SOLD_OUT =>
              (u \notin kvWinners[s] /\ kvStock[s] # <<>> /\ kvStock[s][1] <= 0)

C28_UniqueViolationIsSuccess ==
  [][(sc.pc = "create" /\ sc'.pc = "ack" /\ RowOf(OrderNo(sc.key[1], sc.key[2])))
       => (~sc'.err /\ skRows' = skRows /\ skDelay' = skDelay)]_vars

\* ------------------------------------------------ claims on the limiter

\* C29: a request sentinel.Entry lets in makes exactly one e.Exit(), on the
\* path of the malformed body (400), of the RPC error (500) and of the
\* success (200); a request it blocks (429) makes none: so the exits never
\* outnumber the entries.
C29_EntryExit ==
  /\ gwLast.status \in {200, 400, 500} => (gwLast.entered /\ gwLast.exits = 1)
  /\ gwLast.status = 429 => (~gwLast.entered /\ gwLast.exits = 0)
  /\ gwLast.exits <= (IF gwLast.entered THEN 1 ELSE 0)

\* A request with a malformed body was let in by the limiter and answered 400.
C29_Witness == gwLast.status = 400 /\ gwLast.entered /\ gwLast.exits = 1

\* ---------------------------------------------- claims on the selection

\* The SKUs of the lines of call c.
SkusOf(call) == {call.items[i].sku : i \in 1..Len(call.items)}

C30_Step ==
  /\ \A c \in CkCalls, u \in Users, a \in 0..(NumUsers + 1), S \in SUBSET Skus :
       CreateOrder_Begin(c, u, a, S) =>
         /\ (InCart(u) \cap S = {}) => (ck'[c].pc = "done" /\ ck'[c].code # "OK")
         /\ ck'[c].pc = "loop" =>
              /\ SkusOf(ck'[c]) = InCart(u) \cap S
              /\ Len(ck'[c].items) = Cardinality(InCart(u) \cap S)
              /\ \A i \in 1..Len(ck'[c].items) :
                   ck'[c].items[i].qty = cart[u][ck'[c].items[i].sku]
         /\ dbStock' = dbStock /\ cart' = cart
  /\ \A c \in CkCalls :
       /\ (ck[c].pc = "loop" /\ ck'[c] # ck[c]) =>
            \A s \in Skus \ SkusOf(ck[c]) : dbStock'[s] = dbStock[s]
       /\ (ck[c].pc = "insert" /\ ck'[c] # ck[c]) =>
            /\ dbStock' = dbStock
            /\ ckRows'[c] # <<>> => ck[c].n = Len(ck[c].items)
            /\ \A s \in Skus \ SkusOf(ck[c]) : cart'[ck[c].user][s] = cart[ck[c].user][s]
            /\ \A v \in Users \ {ck[c].user} : cart'[v] = cart[v]

\* C30: CreateOrder makes the order of the cart lines whose SKU the request
\* names, at the cart's quantities, and of nothing else: a request that
\* names no line of the cart is rejected before any DecreaseStock; only the
\* stock of the selected SKUs is decremented; and the cart lines that were
\* not selected are in the cart with the same quantities after the call.
C30_SelectedOnly == [][C30_Step]_vars

\* An order of one line was placed from a cart of two: the other line is
\* still in the cart.
C30_Witness ==
  \E c \in CkCalls :
    /\ ck[c].pc = "done" /\ ck[c].code = "OK" /\ ~ck[c].fault
    /\ Len(ck[c].items) = 1
    /\ cart[ck[c].user][ck[c].items[1].sku] = 0
    /\ \E s \in Skus \ SkusOf(ck[c]) :
         cart[ck[c].user][s] > 0 /\ cart[ck[c].user][s] = cart0[ck[c].user][s]
         /\ dbStock[s] = stock0[s]

\* ------------------------------------------- claims on the validation

\* C31: CreateOrder (the source with the selection) rejects a request
\* without an address id, without a selection, or of a user whose cart is
\* empty, with INVALID_ARGUMENT, and the rejection changes no stock, no
\* order row, no cart and publishes no delay message.
C31_Validation ==
  [][\A c \in CkCalls, u \in Users, a \in 0..(NumUsers + 1), S \in SUBSET Skus :
       (/\ orderBuild = "latest"
        /\ CreateOrder_Begin(c, u, a, S)
        /\ (a <= 0 \/ S = {} \/ (a \in Addresses /\ InCart(u) = {}))) =>
         /\ ck'[c].pc = "done" /\ ck'[c].code = "InvalidArgument"
         /\ UNCHANGED <<dbStock, st, ckRows, cart, ckTokens>>]_vars

\* ------------------------------------------------ claims on the admin

\* C32: ShipOrder takes a PAID order to SHIPPED; on an order that is
\* PENDING, CANCELLED or SHIPPED it answers failure and leaves the status
\* as it is.
C32_ShipOrder ==
  ship.called =>
    /\ ship.before = PAID => (ship.after = SHIPPED \/ ~ship.success)
    /\ ship.before \in {PENDING, CANCELLED, SHIPPED} =>
         (~ship.success /\ ship.after = ship.before)

\* --------------------------------------- claims on the steps after commit

C34_Conservation ==
  \A s \in Skus :
    epoch[s].armed =>
      /\ kvStock[s] # <<>>
      /\ kvStock[s][1] >= 0
      /\ kvStock[s][1] + Cardinality(kvWinners[s]) = epoch[s].quota

\* A SKU armed with two slots: both are gone, to two users, and a reply was
\* lost on the way.
C34_Witness ==
  /\ epoch[SkuID].armed /\ epoch[SkuID].quota = 2
  /\ kvStock[SkuID] = <<0>>
  /\ Cardinality(kvWinners[SkuID]) = 2
  /\ \E c \in SkCalls : sk[c].cur /\ sk[c].err

\* ------------------------------------------ claims on the seckill events

\* The messages ever published to seckill.order.queue for SKU s.
Published(s) ==
  LET RECURSIVE Sum(_)
      Sum(us) == IF us = {} THEN 0
                 ELSE LET u == CHOOSE x \in us : TRUE
                      IN seckillQ[<<u, s>>] + Sum(us \ {u})
  IN Sum(Users)

\* C35 as stated: the events ever published for a SKU are no more than its
\* winners, who are no more than the armed quota.
C35_EventsEver ==
  \A s \in Skus :
    /\ Published(s) <= Cardinality(kvWinners[s])
    /\ epoch[s].armed => Cardinality(kvWinners[s]) <= epoch[s].quota

C35_Step ==
  /\ \A m \in Msgs :
       seckillQ'[m] # seckillQ[m] =>
         /\ seckillQ'[m] = seckillQ[m] + 1
         /\ \E c \in SkCalls :
              /\ sk[c].pc = "evaled" /\ sk'[c].pc = "done"
              /\ ~sk[c].err /\ sk[c].ret = WON
              /\ m = <<sk[c].user, sk[c].sku>>
  /\ \A c \in SkCalls :
       (sk[c].pc = "evaled" /\ sk'[c].pc = "done") =>
         /\ (sk[c].ret = WON /\ build = "mq" /\ productMq = "ok") =>
              seckillQ'[<<sk[c].user, sk[c].sku>>] = seckillQ[<<sk[c].user, sk[c].sku>>] + 1
         /\ sk[c].ret # WON => (seckillQ' = seckillQ /\ sk'[c].code # "Panic")
  \* a call whose Eval failed ends there and publishes nothing
  /\ \A c \in SkCalls : (sk[c].pc # "done" /\ sk'[c].err) => seckillQ' = seckillQ

\* C35, amended: SeckillProduct publishes one {user_id, sku_id} event when
\* the gate returned WON and none otherwise; so for each SKU the events
\* published for the admissions made since the operator last armed it are
\* no more than its winners, who are no more than the armed quota.
C35_EventsForWinners ==
  /\ [][C35_Step]_vars
  /\ [](\A s \in Skus :
          epoch[s].armed =>
            /\ Cardinality(RoundWith(s, WON)) <= Cardinality(kvWinners[s])
            /\ Cardinality(kvWinners[s]) <= epoch[s].quota)

\* One call won and its event is in the queue, another was refused and
\* published nothing.
C35_Witness ==
  \E c, d \in SkCalls :
    /\ build = "mq" /\ epoch[SkuID].armed
    /\ sk[c].pc = "done" /\ sk[c].cur /\ sk[c].ret = WON /\ sk[c].code = "OK" /\ sk[c].sku = SkuID
    /\ seckillQ[<<sk[c].user, SkuID>>] = 1
    /\ sk[d].pc = "done" /\ sk[d].cur /\ ~sk[d].err /\ sk[d].ret \in {DUP, SOLD_OUT}
    /\ sk[d].sku = SkuID
    /\ Published(SkuID) = 1

\* --------------------------------------------- claims on the stock ceiling

\* C36: every RollbackStock of a cancel gives back a unit an earlier
\* DecreaseStock took for the same line, so the stock of a SKU in the
\* database never exceeds the stock it started with, also when the order
\* cancelled or expired is a flash order.
C36_StockCeiling ==
  \A s \in Skus : dbStock[s] <= stock0[s]

\* --------------------------------------------- claims on the delay message

\* C37: the delay message of an order is published only after its row is
\* committed, in CreateOrder and in createSeckillOrder alike: every message
\* published, and so every message the expiry consumer receives, is of an
\* order that has a row, and an order whose creation failed has none.
C37_TokenAfterCommit ==
  /\ \A no \in skDelay : RowOf(no)
  /\ \A c \in ckTokens : ckRows[c] # <<>>
  /\ \A c \in CkCalls :
       (ck[c].pc = "done" /\ ck[c].code # "OK") =>
         (ckRows[c] = <<>> /\ c \notin ckTokens /\ ck[c].published = 0)

\* ----------------------------------------- claims on the units of orders

\* The units of SKU s in the lines of the orders of `os`.
UnitsOf(os, s) ==
  LET RECURSIVE Lines(_, _)
      Lines(o, i) == IF i = 0 THEN 0
                     ELSE (IF Items(o)[i].sku = s THEN Items(o)[i].qty ELSE 0) + Lines(o, i - 1)
      RECURSIVE Sum(_)
      Sum(rest) == IF rest = {} THEN 0
                   ELSE LET o == CHOOSE x \in rest : TRUE
                        IN Lines(o, Len(Items(o))) + Sum(rest \ {o})
  IN Sum(os)

\* The stock of SKU s before the orders were placed: DecreaseStock took
\* the lines of every one of them before its row was committed.
S0(s) == stock0[s] + UnitsOf(Orders, s)

\* C38: the row of a standard order is committed only after DecreaseStock
\* succeeded for each of its lines; so in every state, for every SKU, the
\* units in the lines of the orders that are PENDING, PAID or SHIPPED are
\* no more than the initial stock less the stock in the database.
C38_DecreaseFirst ==
  \A s \in Skus :
    UnitsOf({o \in Orders : ordStatus[o] \in {PENDING, PAID, SHIPPED}}, s) <= S0(s) - dbStock[s]

\* ------------------------------------------- claims on the consumers' start

\* C39: the order service calls startConsumer if and only if an attempt of
\* initRabbitMQ went through all its steps: when the last attempt failed,
\* at whatever step, startConsumer is not called and nothing is tried on a
\* channel that is nil or closed; after a success both consumers run.
C39_HealthyBroker ==
  /\ (boot.pc \in {"consume", "panic", "fatal"} \/ boot.consumers > 0) =>
       (boot.succeeded /\ boot.mqCh = "open")
  /\ (boot.pc \in {"register", "serving"} /\ boot.succeeded) => boot.consumers = 2

\* ------------------------------------- claims on the rows of flash orders

\* The flash order rows of SKU s.
FlashRows(s) == {r \in skRows : r.sku = s}

FlashBounded(s) ==
  /\ \A r \in FlashRows(s) : r.no = OrderNo(r.user, s) /\ r.user \in kvWinners[s]
  /\ Cardinality(FlashRows(s)) <= epoch[s].quota

\* C40 as stated: whenever a SKU is armed, every row "SK-u-s" has u in
\* winners:<s> and the rows of the SKU are no more than the armed quota.
C40_RowsOfWinners ==
  \A s \in Skus : epoch[s].armed => FlashBounded(s)

\* Every call of SeckillProduct made so far on SKU s came after the
\* operator's last command: the operator has not re-armed a sale.
FirstRound(s) ==
  \A c \in SkCalls :
    /\ sk[c].pc # "gone"
    /\ (sk[c].pc # "idle" /\ sk[c].sku = s) => sk[c].cur

\* C40, amended: between the arming step of a SKU and the next command of
\* the operator, the flash orders all being of admissions made since that
\* arming step, every row "SK-u-s" has u in winners:<s> and the rows of
\* the SKU are no more than the quota it was armed with.
C40_RowsOfRound ==
  \A s \in Skus : (epoch[s].armed /\ FirstRound(s)) => FlashBounded(s)

\* The quota of 2 is sold and both flash orders are in the table.
C40_Witness ==
  /\ epoch[SkuID].armed /\ epoch[SkuID].quota = 2 /\ FirstRound(SkuID)
  /\ Cardinality(FlashRows(SkuID)) = 2
  /\ kvStock[SkuID] = <<0>>

====
